---------------------------- MODULE Spec2Model ----------------------------
(***************************************************************************)
(* Verification model of the natural-language-to-SQL pipeline of the       *)
(* healthcare chatbot: the database retry policy                           *)
(* (healthcare_database_manager_sqlserver.py), the dynamic schema manager  *)
(* (dynamic_schema_manager.py, sql_schema_parser.py) and the SQL           *)
(* generators (dynamic_schema_manager.py, enhanced_schema_rag.py,         *)
(* availability_query_generator.py), the chatbot turn                      *)
(* (healthcare_chatbot_service.py, enhanced_availability_query_processor.py,*)
(* app/app.py), the result formatters (healthcare_chatbot_service.py), the *)
(* live chain of thoughts (websocket_chain_of_thoughts.py) and the         *)
(* conversation manager (nlp_processor.py, ai_chatbot_tools.py).           *)
(***************************************************************************)
EXTENDS Integers, Sequences, FiniteSets, TLC

VARIABLES
    \* ---- retry policy / query execution ----
    op,             \* the database operation being run
    max_retries,    \* decorator parameter
    delay,          \* decorator parameter
    backoff,        \* decorator parameter
    script,         \* what the store answers to the 1st, 2nd, ... invocation
    retries,        \* wrapper local
    current_delay,  \* wrapper local
    calls,          \* invocations of the underlying call so far
    sleeps,         \* the time.sleep() durations so far, in order
    result,         \* "pending" until the operation ends, then how it ended
    \* ---- dynamic schema manager ----
    file,           \* the schema source on disk (chatbot_schema.sql)
    clock,          \* datetime.now()
    client_ok,      \* self.client is not None
    embedding_ok,   \* self.embedding_model is not None
    current_schema, \* self.current_schema
    schema_hash,    \* self.schema_hash
    collection,     \* the vector collection "healthcare_schema_dynamic"
    writer,         \* the thread running check_for_schema_changes /
                    \* force_schema_update: position and locals
    reader,         \* the thread running get_schema_for_query
    history,        \* bookkeeping: snapshots published, operations run
    \* ---- SQL generators ----
    chat_available, \* self.chat_available / self.llm_available
    llm,            \* what the chat model does when it is invoked
    request,        \* the generator called and its arguments
    generation,     \* the call: position and return value
    \* ---- chatbot turn ----
    user_turn,      \* the call that starts the turn and its arguments
    dependencies,   \* what the schema manager, the chat model, the query
                    \* generators and the database do during the turn
    turn,           \* the call: position, locals and return value
    audit,          \* bookkeeping: every append to the chain of thoughts and
                    \* every exception caught, in order
    route,          \* the /query route: what the database answers to each
                    \* execution, the locals of the retry loop, and
                    \* bookkeeping of the prompts sent and the SQL executed
    \* ---- result formatting ----
    format_call,    \* the formatter called, the request and the rows
    formatted,      \* the call: position and the message returned
    \* ---- live chain of thoughts ----
    socketio,       \* self.socketio is not None
    ws_clock,       \* datetime.now(), in hours
    active_sessions, \* self.active_sessions
    thought_queues, \* self.thought_queues
    emitters,       \* the threads calling emit_thought: position and locals
    ws_history,     \* bookkeeping: the last operation, what cleanup found,
                    \* the ids generated, the thoughts stored since a clear
    \* ---- conversation manager ----
    active_contexts, \* self.active_contexts
    conv_call,      \* the last call of process_user_input: session, response
    conv_log        \* bookkeeping: the calls made, and for every collected
                    \* parameter the tool selected when it was collected

retryVars == <<op, max_retries, delay, backoff, script, retries,
               current_delay, calls, sleeps, result>>

schemaVars == <<file, clock, client_ok, embedding_ok, current_schema,
                schema_hash, collection, writer, reader, history>>

genVars == <<chat_available, llm, request, generation>>

turnVars == <<user_turn, dependencies, turn, audit, route>>

formatVars == <<format_call, formatted>>

wsVars == <<socketio, ws_clock, active_sessions, thought_queues, emitters, ws_history>>

convVars == <<active_contexts, conv_call, conv_log>>

vars == <<retryVars, schemaVars, genVars, turnVars, formatVars, wsVars, convVars>>

\* What the actions of one subsystem leave alone
notRetryVars == <<schemaVars, genVars, turnVars, formatVars, wsVars, convVars>>
notSchemaVars == <<retryVars, genVars, turnVars, formatVars, wsVars, convVars>>
notGenVars == <<retryVars, schemaVars, turnVars, formatVars, wsVars, convVars>>
notTurnVars == <<retryVars, schemaVars, genVars, formatVars, wsVars, convVars>>
notFormatVars == <<retryVars, schemaVars, genVars, turnVars, wsVars, convVars>>
notWsVars == <<retryVars, schemaVars, genVars, turnVars, formatVars, convVars>>
notConvVars == <<retryVars, schemaVars, genVars, turnVars, formatVars, wsVars>>

-----------------------------------------------------------------------------
\* Generic helpers

Range(s) == {s[i] : i \in 1..Len(s)}

SeqsOfLen(S, n) == [1..n -> S]

-----------------------------------------------------------------------------
\* Retry policy: retry_db_operation and the operations that execute SQL

\* Bound on the max_retries values explored, and the length of the store's
\* script of answers.
MaxRetriesBound == 4

DefaultMaxRetries == 3
DefaultDelay == 1
DefaultBackoff == 2
SearchEmployeeDelay == 2

\* The answers of the store to one invocation: rows, or an exception.  An
\* exception has a class and a text; the text is the set of fragments that
\* str(e) contains.
Outcomes == {"ok", "deadlock", "conn_timeout", "syntax", "value_error"}

IsPyodbcError(o) == o \in {"deadlock", "conn_timeout", "syntax"}

ErrorText(o) ==
    CASE o = "deadlock"     -> {"40001", "Transaction was deadlocked"}
      [] o = "conn_timeout" -> {"08001", "timeout"}
      [] o = "syntax"       -> {"42000", "Incorrect syntax"}
      [] OTHER              -> {"invalid literal"}

retryable_errors ==
    {"42S02", "08001", "08S01", "40001", "Connection refused", "timeout"}

\* is_retryable, with every error taken as retryable
is_retryable_always(o) == TRUE

\* any(err in error_code for err in retryable_errors)
is_retryable(o) == \E err \in retryable_errors : err \in ErrorText(o)

\* "current_delay *= backoff", without the multiplication
NextDelayFlat(d, b) == d

\* "current_delay *= backoff"
NextDelay(d, b) == d * b

\* Which operations carry the @retry_db_operation decorator.
Decorated(o) == o = "search_employee_by_name"

Operations ==
    {"search_employee_by_name", "execute_query", "_execute_query",
     "_handle_general_query"}

\* The operations that run a SQL string handed to them.
SqlStringOperations ==
    {"execute_query", "_execute_query", "_handle_general_query"}

InitRetry ==
    /\ op \in Operations
    /\ script \in SeqsOfLen(Outcomes, MaxRetriesBound)
    /\ IF Decorated(op)
         THEN /\ max_retries \in 0..MaxRetriesBound
              /\ delay \in {DefaultDelay, SearchEmployeeDelay}
         ELSE /\ max_retries = DefaultMaxRetries
              /\ delay = DefaultDelay
    /\ backoff = DefaultBackoff
    /\ retries = 0
    /\ current_delay = delay
    /\ calls = 0
    /\ sleeps = <<>>
    /\ result = "pending"

\* wrapper: the underlying call returns; "return func(*args, **kwargs)"
WrapperReturn ==
    /\ Decorated(op) /\ result = "pending"
    /\ retries < max_retries
    /\ script[calls + 1] = "ok"
    /\ calls' = calls + 1
    /\ result' = "rows"
    /\ UNCHANGED <<op, max_retries, delay, backoff, script, retries,
                   current_delay, sleeps>>
    /\ UNCHANGED notRetryVars

\* wrapper: "except pyodbc.Error" and the error is final: the last attempt,
\* or not retryable
WrapperRaiseDbError ==
    /\ Decorated(op) /\ result = "pending"
    /\ retries < max_retries
    /\ IsPyodbcError(script[calls + 1])
    /\ calls' = calls + 1
    /\ retries' = retries + 1
    /\ (retries' >= max_retries \/ ~is_retryable(script[calls + 1]))
    /\ result' = "raised"
    /\ UNCHANGED <<op, max_retries, delay, backoff, script,
                   current_delay, sleeps>>
    /\ UNCHANGED notRetryVars

\* wrapper: "except pyodbc.Error", retryable, attempts left: sleep, back off
WrapperSleepAndRetry ==
    /\ Decorated(op) /\ result = "pending"
    /\ retries < max_retries
    /\ IsPyodbcError(script[calls + 1])
    /\ calls' = calls + 1
    /\ retries' = retries + 1
    /\ ~(retries' >= max_retries \/ ~is_retryable(script[calls + 1]))
    /\ sleeps' = Append(sleeps, current_delay)
    /\ current_delay' = NextDelay(current_delay, backoff)
    /\ UNCHANGED <<op, max_retries, delay, backoff, script, result>>
    /\ UNCHANGED notRetryVars

\* wrapper: "except Exception": not a database error, raised at once
WrapperRaiseOther ==
    /\ Decorated(op) /\ result = "pending"
    /\ retries < max_retries
    /\ script[calls + 1] # "ok" /\ ~IsPyodbcError(script[calls + 1])
    /\ calls' = calls + 1
    /\ result' = "raised"
    /\ UNCHANGED <<op, max_retries, delay, backoff, script, retries,
                   current_delay, sleeps>>
    /\ UNCHANGED notRetryVars

\* wrapper: the while loop is not entered; "return None"
WrapperReturnNone ==
    /\ Decorated(op) /\ result = "pending"
    /\ ~(retries < max_retries)
    /\ result' = "none"
    /\ UNCHANGED <<op, max_retries, delay, backoff, script, retries,
                   current_delay, calls, sleeps>>
    /\ UNCHANGED notRetryVars

\* HealthcareDatabaseManager.execute_query: no decorator, one cursor.execute
ExecuteQuery ==
    /\ op = "execute_query" /\ result = "pending"
    /\ calls' = calls + 1
    /\ result' = IF script[calls + 1] = "ok" THEN "rows" ELSE "raised"
    /\ UNCHANGED <<op, max_retries, delay, backoff, script, retries,
                   current_delay, sleeps>>
    /\ UNCHANGED notRetryVars

\* EnhancedAvailabilityQueryProcessor._execute_query: db_manager.execute_query
\* once, every exception turned into (False, [], error_msg)
ProcessorExecuteQuery ==
    /\ op = "_execute_query" /\ result = "pending"
    /\ calls' = calls + 1
    /\ result' = IF script[calls + 1] = "ok" THEN "rows" ELSE "failure_tuple"
    /\ UNCHANGED <<op, max_retries, delay, backoff, script, retries,
                   current_delay, sleeps>>
    /\ UNCHANGED notRetryVars

\* HealthcareResponseGenerator._handle_general_query, step 4: cursor.execute
\* on a fresh connection once, every exception turned into the
\* "database_unavailable" response
HandleGeneralQueryExecute ==
    /\ op = "_handle_general_query" /\ result = "pending"
    /\ calls' = calls + 1
    /\ result' = IF script[calls + 1] = "ok" THEN "rows"
                 ELSE "database_unavailable"
    /\ UNCHANGED <<op, max_retries, delay, backoff, script, retries,
                   current_delay, sleeps>>
    /\ UNCHANGED notRetryVars

NextRetry ==
    \/ WrapperReturn
    \/ WrapperRaiseDbError
    \/ WrapperSleepAndRetry
    \/ WrapperRaiseOther
    \/ WrapperReturnNone
    \/ ExecuteQuery
    \/ ProcessorExecuteQuery
    \/ HandleGeneralQueryExecute

\* The error classes the retry policy is specified to retry (connection
\* timeout, communication failure, deadlock, object not found), as opposed to
\* the ones it must not (syntax error, permission denied, non-database
\* errors).
RetryableFailure(o) == o \in {"deadlock", "conn_timeout"}

\* The store would answer with rows at some attempt k <= n, every earlier
\* attempt failing with a retryable database error.
WouldSucceedWithin(n) ==
    \E k \in 1..n :
        /\ script[k] = "ok"
        /\ \A j \in 1..(k - 1) : RetryableFailure(script[j])

\* C1: for a retry-wrapped operation with max_retries = N >= 1 that has
\* ended: if every invocation raises a retryable error, the underlying call
\* was invoked exactly N times and the failure was raised; if the first
\* invocation raises a non-retryable error the call was invoked exactly once
\* and the error raised with no sleep; and a non-retryable error at any
\* invocation is the last invocation (no retry follows it).
C1_RetryBound ==
    (Decorated(op) /\ max_retries >= 1 /\ result # "pending") =>
        /\ (\A i \in 1..max_retries : RetryableFailure(script[i]))
              => (calls = max_retries /\ result = "raised")
        /\ (script[1] # "ok" /\ ~RetryableFailure(script[1]))
              => (calls = 1 /\ result = "raised" /\ sleeps = <<>>)
        /\ \A i \in 1..calls :
              (script[i] # "ok" /\ ~RetryableFailure(script[i]))
                => (i = calls /\ result = "raised" /\ Len(sleeps) = i - 1)

\* C1 witness: three retryable failures under max_retries = 3 ended in a
\* raise after the third invocation.
C1_Witness ==
    /\ Decorated(op) /\ max_retries = 3 /\ result = "raised"
    /\ \A i \in 1..3 : RetryableFailure(script[i])
    /\ calls = 3

\* C9 (as claimed): every execution of a SQL string is covered by the retry
\* policy: when the store fails with a retryable error and a later attempt
\* within maxRetries would succeed, the rows are returned.
C9_RetryCoversSqlExecution ==
    (op \in SqlStringOperations /\ result # "pending"
        /\ WouldSucceedWithin(DefaultMaxRetries))
      => result = "rows"

\* C10: deadlock on the first two invocations, success on the third: the
\* wrapped operation returns the rows after exactly two sleeps, the first of
\* `delay`, the second the first multiplied by the backoff factor and
\* strictly longer.
C10_BackoffTwice ==
    (Decorated(op) /\ max_retries >= 3 /\ result # "pending"
        /\ script[1] = "deadlock" /\ script[2] = "deadlock"
        /\ script[3] = "ok")
      => /\ result = "rows"
         /\ calls = 3
         /\ Len(sleeps) = 2
         /\ sleeps[1] = delay
         /\ sleeps[2] = sleeps[1] * backoff
         /\ sleeps[2] > sleeps[1]

\* C10 witness: the scenario ran to its end under the default max_retries.
C10_Witness ==
    /\ Decorated(op) /\ max_retries = DefaultMaxRetries
    /\ script[1] = "deadlock" /\ script[2] = "deadlock" /\ script[3] = "ok"
    /\ result = "rows" /\ Len(sleeps) = 2

-----------------------------------------------------------------------------
\* Strings that the code searches are sequences of characters

UpperAlphabet ==
    <<"A", "B", "C", "D", "E", "F", "G", "H", "I", "J", "K", "L", "M", "N", "O", "P", "Q", "R", "S", "T", "U", "V", "W", "X", "Y", "Z">>

LowerAlphabet ==
    <<"a", "b", "c", "d", "e", "f", "g", "h", "i", "j", "k", "l", "m", "n", "o", "p", "q", "r", "s", "t", "u", "v", "w", "x", "y", "z">>

LowerChar(c) ==
    IF \E i \in 1..26 : UpperAlphabet[i] = c
      THEN LowerAlphabet[CHOOSE i \in 1..26 : UpperAlphabet[i] = c]
      ELSE c

\* str.lower()
Lower(s) == [i \in 1..Len(s) |-> LowerChar(s[i])]

\* "needle in hay" on strings
Contains(needle, hay) ==
    \E i \in 0..(Len(hay) - Len(needle)) :
        \A j \in 1..Len(needle) : hay[i + j] = needle[j]

-----------------------------------------------------------------------------
\* Dynamic schema manager: the schema source and its parser

\* Bounds of the schema model
MaxWriterOps == 1
MaxEdits == 1
MaxReads == 1

\* The schema sources explored: no file, an unreadable file, or DDL text, a
\* sequence of "-- Table:" sections, each with its column definitions.
DdlNoTables == <<>>

DdlBase ==
    << [table |-> "Patient", cols |-> <<"PatientId", "FirstName">>],
       [table |-> "Employee", cols |-> <<"EmployeeId", "Active">>] >>

DdlEmailAdded ==
    << [table |-> "Patient", cols |-> <<"PatientId", "FirstName", "Email">>],
       [table |-> "Employee", cols |-> <<"EmployeeId", "Active">>] >>

DdlActiveRemoved ==
    << [table |-> "Patient", cols |-> <<"PatientId", "FirstName">>],
       [table |-> "Employee", cols |-> <<"EmployeeId">>] >>

Sources ==
    {[kind |-> "missing", ddl |-> <<>>], [kind |-> "unreadable", ddl |-> <<>>]}
    \cup {[kind |-> "ddl", ddl |-> d] :
            d \in {DdlNoTables, DdlBase, DdlEmailAdded, DdlActiveRemoved}}

\* SQLSchemaParser._parse_single_column: ordinal_position is 0, "set later"
ColumnInfo(name) == [name |-> name, ordinal_position |-> 0]

\* SQLSchemaParser._parse_create_table_statement
ParseCreateTable(section, now) ==
    [table_name |-> section.table,
     columns |-> [j \in 1..Len(section.cols) |-> ColumnInfo(section.cols[j])],
     last_updated |-> now]

\* SQLSchemaParser.parse_schema_file: {} when the file is missing, cannot be
\* read or holds no table section; never raises.  A schema is the ordered
\* dict, here the sequence of its values.
parse_schema_file(src, now) ==
    IF src.kind # "ddl"
      THEN <<>>
      ELSE [i \in 1..Len(src.ddl) |-> ParseCreateTable(src.ddl[i], now)]

\* _load_schema_from_file: column['ordinal_position'] = i + 1
SetOrdinalPositions(schema) ==
    [i \in 1..Len(schema) |->
        [schema[i] EXCEPT !.columns =
            [j \in 1..Len(schema[i].columns) |->
                [schema[i].columns[j] EXCEPT !.ordinal_position = j]]]]

NoHash == [set |-> FALSE, of |-> <<>>]

\* _calculate_schema_hash: md5 of the canonical JSON of the whole schema dict
\* (every field of every table and column); md5 is taken as collision-free,
\* so two hashes are equal exactly when the serialized contents are.
CalculateSchemaHash(schema) == [set |-> TRUE, of |-> schema]

TableNames(schema) == {schema[i].table_name : i \in 1..Len(schema)}

\* schema[table_name]
Lookup(schema, name) ==
    schema[CHOOSE i \in 1..Len(schema) : schema[i].table_name = name]

ColumnNames(table_info) ==
    {table_info.columns[j].name : j \in 1..Len(table_info.columns)}

EmptyUpdateInfo ==
    [tables_updated |-> {}, columns_added |-> <<>>, columns_removed |-> <<>>,
     success |-> FALSE, error_message |-> "None"]

\* check_for_schema_changes, "Analyze changes": the update_info for old -> new
AnalyzeChanges(old_schema, new_schema) ==
    LET old_tables == TableNames(old_schema)
        new_tables == TableNames(new_schema)
        added_tables == new_tables \ old_tables
        removed_tables == old_tables \ new_tables
        common_tables == old_tables \cap new_tables
        added_cols(t) == ColumnNames(Lookup(new_schema, t))
                            \ ColumnNames(Lookup(old_schema, t))
        removed_cols(t) == ColumnNames(Lookup(old_schema, t))
                            \ ColumnNames(Lookup(new_schema, t))
    IN  [tables_updated |-> added_tables \cup removed_tables \cup common_tables,
         columns_added |->
            [t \in {u \in common_tables : added_cols(u) # {}} |-> added_cols(t)],
         columns_removed |->
            [t \in {u \in common_tables : removed_cols(u) # {}} |->
                removed_cols(t)],
         success |-> FALSE,
         error_message |-> "None"]

NoCollection == [exists |-> FALSE, points |-> <<>>]

\* _rebuild_vector_database: one point per table of the schema, ids from 1
PointsOf(schema) ==
    [i \in 1..Len(schema) |-> [id |-> i, table |-> schema[i]]]

\* the check of the backend, were the embedding model forgotten
BackendAvailableClientOnly == client_ok

\* "if not self.client or not self.embedding_model"
BackendAvailable == client_ok /\ embedding_ok

\* _get_tables_by_keywords: keywords_map
keywords_map ==
    { <<<<"p", "a", "t", "i", "e", "n", "t">>, {"Patient"}>>,
      <<<<"e", "m", "p", "l", "o", "y", "e", "e">>, {"Employee"}>>,
      <<<<"a", "p", "p", "o", "i", "n", "t", "m", "e", "n", "t">>, {"Appointment", "AppointmentStatus"}>>,
      <<<<"a", "u", "t", "h">>, {"Auth"}>>,
      <<<<"l", "o", "c", "a", "t", "i", "o", "n">>, {"Location", "Site"}>>,
      <<<<"s", "e", "r", "v", "i", "c", "e">>, {"ServiceType"}>>,
      <<<<"a", "v", "a", "i", "l", "a", "b", "i", "l", "i", "t", "y">>, {"Employee", "EmployeeAvailabilityDateTime"}>>,
      <<<<"t", "r", "e", "a", "t", "m", "e", "n", "t">>, {"TreatmentType"}>>,
      <<<<"g", "e", "n", "d", "e", "r">>, {"Gender"}>> }

DefaultTables == {"Patient", "Employee", "Appointment"}

\* _get_tables_by_keywords: matched_tables for a query
MatchedTables(user_query) ==
    LET query_lower == Lower(user_query)
        matched == UNION {kt[2] : kt \in {e \in keywords_map :
                                             Contains(e[1], query_lower)}}
    IN  IF matched = {} THEN DefaultTables ELSE matched

\* The user queries explored
Queries ==
    { <<>>,
      <<"P", "a", "t", "i", "e", "n", "t">>,
      <<"a", "v", "a", "i", "l", "a", "b", "i", "l", "i", "t", "y">>,
      <<"h", "i">> }

top_k == 5

-----------------------------------------------------------------------------
\* Dynamic schema manager: state after construction

WriterIdle ==
    [pc |-> "idle", op |-> "none", new_schema |-> <<>>, new_hash |-> NoHash,
     update_info |-> EmptyUpdateInfo, parsed |-> <<>>, before |-> <<>>,
     before_source |-> [kind |-> "missing", ddl |-> <<>>], changed |-> FALSE]

NoResult ==
    [status |-> "none", tables |-> <<>>, confidence_score |-> "none",
     search_method |-> "none", chosen_by |-> "none"]

ReaderIdle ==
    [pc |-> "idle", user_query |-> <<>>, search_results |-> <<>>, i |-> 1,
     relevant_tables |-> <<>>, matched_tables |-> {}, table_name |-> "none",
     via |-> "none", ret |-> NoResult]

\* DynamicSchemaManager.__init__ followed by _load_schema_from_file
InitSchema ==
    /\ file \in Sources
    /\ clock = 0
    /\ client_ok \in BOOLEAN
    /\ embedding_ok \in BOOLEAN
    /\ LET schema_info == parse_schema_file(file, 0)
           loaded == SetOrdinalPositions(schema_info)
       IN  IF schema_info # <<>>
             THEN /\ current_schema = loaded
                  /\ schema_hash = CalculateSchemaHash(loaded)
                  /\ collection =
                        IF BackendAvailable
                          THEN [exists |-> TRUE, points |-> PointsOf(loaded)]
                          ELSE NoCollection
             ELSE /\ current_schema = <<>>
                  /\ schema_hash = NoHash
                  /\ collection = NoCollection
    /\ writer = WriterIdle
    /\ reader = ReaderIdle
    /\ history = [published |-> {current_schema}, snapshot_source |-> file,
                  ops |-> 0, edits |-> 0, reads |-> 0]

\* datetime.now() at the next parse of the file: later than at the last one
\* (the timestamps have microsecond resolution and a parse reads the file)
Now == {clock + 1}

\* Somebody edits, replaces or removes the schema file
EditSchemaFile ==
    /\ history.edits < MaxEdits
    /\ \E src \in Sources \ {file} : file' = src
    /\ history' = [history EXCEPT !.edits = @ + 1]
    /\ UNCHANGED <<clock, client_ok, embedding_ok, current_schema,
                   schema_hash, collection, writer, reader>>
    /\ UNCHANGED notSchemaVars

-----------------------------------------------------------------------------
\* Dynamic schema manager: check_for_schema_changes and force_schema_update,
\* run by one thread; every step is one access to the shared state

\* The writer after its operation has returned `update_info`
Finished(w, update_info) ==
    [w EXCEPT !.pc = "idle", !.new_schema = <<>>, !.new_hash = NoHash,
              !.update_info = update_info]

\* check_for_schema_changes up to the comparison of the hashes: the writer
\* after it has parsed the file at time `now`, cached hash being `cached`
AfterParse(w, now, cached) ==
    LET new_schema == parse_schema_file(file, now)
        new_hash == CalculateSchemaHash(new_schema)
        changed == (~cached.set) \/ new_hash # cached
        parsed == [w EXCEPT !.new_schema = new_schema,
                            !.new_hash = new_hash,
                            !.update_info = EmptyUpdateInfo,
                            !.parsed = Append(@, file),
                            !.changed = changed]
    IN  IF changed THEN [parsed EXCEPT !.pc = "chk_publish"]
        ELSE IF w.op = "check" THEN Finished(parsed, EmptyUpdateInfo)
        ELSE [parsed EXCEPT !.pc = "frc_finish"]

\* check_for_schema_changes(): re-parse the file, compare the hashes
CheckForSchemaChanges ==
    /\ writer.pc = "idle"
    /\ history.ops < MaxWriterOps
    /\ \E now \in Now :
        /\ clock' = now
        /\ writer' = AfterParse([WriterIdle EXCEPT !.op = "check",
                                     !.before = current_schema,
                                     !.before_source =
                                        history.snapshot_source],
                                now, schema_hash)
    /\ history' = [history EXCEPT !.ops = @ + 1]
    /\ UNCHANGED <<file, client_ok, embedding_ok, current_schema, schema_hash,
                   collection, reader>>
    /\ UNCHANGED notSchemaVars

\* check_for_schema_changes(), "Update current schema": the diff against the
\* old schema, then self.current_schema and self.schema_hash are assigned
PublishChanges ==
    /\ writer.pc = "chk_publish"
    /\ current_schema' = writer.new_schema
    /\ schema_hash' = writer.new_hash
    /\ LET update_info == AnalyzeChanges(current_schema, writer.new_schema)
       IN  writer' = IF writer.op = "check"
                       THEN Finished(writer, update_info)
                       ELSE [writer EXCEPT !.update_info = update_info,
                                           !.pc = "frc_finish"]
    /\ history' = [history EXCEPT
            !.published = @ \cup {writer.new_schema},
            !.snapshot_source = writer.parsed[Len(writer.parsed)]]
    /\ UNCHANGED <<file, clock, client_ok, embedding_ok, collection, reader>>
    /\ UNCHANGED notSchemaVars

\* force_schema_update(): self.schema_hash = None, then
\* _load_schema_from_file() up to "if schema_info:"
ForceSchemaUpdate ==
    /\ writer.pc = "idle"
    /\ history.ops < MaxWriterOps
    /\ schema_hash' = NoHash
    /\ \E now \in Now :
        /\ clock' = now
        /\ LET schema_info == parse_schema_file(file, now)
           IN  writer' = [WriterIdle EXCEPT
                    !.op = "force",
                    !.before = current_schema,
                    !.before_source = history.snapshot_source,
                    !.parsed = <<file>>,
                    !.new_schema = SetOrdinalPositions(schema_info),
                    !.pc = IF schema_info # <<>> THEN "load_publish"
                           ELSE "chk_parse"]
    /\ history' = [history EXCEPT !.ops = @ + 1]
    /\ UNCHANGED <<file, client_ok, embedding_ok, current_schema, collection,
                   reader>>
    /\ UNCHANGED notSchemaVars

\* _load_schema_from_file(): self.current_schema and self.schema_hash are
\* assigned, _rebuild_vector_database() follows
LoadPublish ==
    /\ writer.pc = "load_publish"
    /\ current_schema' = writer.new_schema
    /\ schema_hash' = CalculateSchemaHash(writer.new_schema)
    /\ writer' = [writer EXCEPT
            !.pc = IF BackendAvailable THEN "load_rb_delete" ELSE "chk_parse"]
    /\ history' = [history EXCEPT
            !.published = @ \cup {writer.new_schema},
            !.snapshot_source = writer.parsed[Len(writer.parsed)]]
    /\ UNCHANGED <<file, clock, client_ok, embedding_ok, collection, reader>>
    /\ UNCHANGED notSchemaVars

\* _rebuild_vector_database(): delete_collection; until create_collection
\* the collection does not exist
RebuildDelete ==
    /\ writer.pc \in {"load_rb_delete", "frc_rb_delete"}
    /\ collection' = NoCollection
    /\ writer' = [writer EXCEPT
            !.pc = IF @ = "load_rb_delete" THEN "load_rb_create"
                   ELSE "frc_rb_create"]
    /\ UNCHANGED <<file, clock, client_ok, embedding_ok, current_schema,
                   schema_hash, reader, history>>
    /\ UNCHANGED notSchemaVars

\* _rebuild_vector_database(): create_collection
RebuildCreate ==
    /\ writer.pc \in {"load_rb_create", "frc_rb_create"}
    /\ collection' = [exists |-> TRUE, points |-> <<>>]
    /\ writer' = [writer EXCEPT
            !.pc = IF @ = "load_rb_create" THEN "load_rb_upsert"
                   ELSE "frc_rb_upsert"]
    /\ UNCHANGED <<file, clock, client_ok, embedding_ok, current_schema,
                   schema_hash, reader, history>>
    /\ UNCHANGED notSchemaVars

\* _rebuild_vector_database(): the points of self.current_schema are built
\* and upserted; in force_schema_update the success fields follow the second
\* rebuild
RebuildUpsert ==
    /\ writer.pc \in {"load_rb_upsert", "frc_rb_upsert"}
    /\ collection' = [collection EXCEPT !.points = PointsOf(current_schema)]
    /\ writer' =
        IF writer.pc = "load_rb_upsert"
          THEN [writer EXCEPT !.pc = "chk_parse"]
          ELSE Finished(writer, [writer.update_info EXCEPT
                        !.success = TRUE,
                        !.tables_updated = TableNames(current_schema)])
    /\ UNCHANGED <<file, clock, client_ok, embedding_ok, current_schema,
                   schema_hash, reader, history>>
    /\ UNCHANGED notSchemaVars

\* force_schema_update(): the call of check_for_schema_changes()
ForceCheckParse ==
    /\ writer.pc = "chk_parse"
    /\ \E now \in Now :
        /\ clock' = now
        /\ writer' = AfterParse(writer, now, schema_hash)
    /\ UNCHANGED <<file, client_ok, embedding_ok, current_schema, schema_hash,
                   collection, reader, history>>
    /\ UNCHANGED notSchemaVars

\* force_schema_update(): "if self.current_schema:" after the check
ForceFinish ==
    /\ writer.pc = "frc_finish"
    /\ writer' =
        IF current_schema # <<>>
          THEN IF BackendAvailable
                 THEN [writer EXCEPT !.pc = "frc_rb_delete"]
                 ELSE Finished(writer, [writer.update_info EXCEPT
                        !.success = TRUE,
                        !.tables_updated = TableNames(current_schema)])
          ELSE Finished(writer, [writer.update_info EXCEPT
                    !.error_message = "No schema found to update"])
    /\ UNCHANGED <<file, clock, client_ok, embedding_ok, current_schema,
                   schema_hash, collection, reader, history>>
    /\ UNCHANGED notSchemaVars

-----------------------------------------------------------------------------
\* Dynamic schema manager: get_schema_for_query, run by another thread;
\* every step is one access to self.current_schema or to the collection

\* What client.search can answer: the tables of up to `limit` points of the
\* collection, in the order of their scores (which the embedding decides)
SearchAnswers(points, limit) ==
    LET names == {points[i].table.table_name : i \in 1..Len(points)}
    IN  {r \in UNION {[1..n -> names] : n \in 0..Cardinality(names)} :
            /\ Len(r) <= limit
            /\ \A a, b \in 1..Len(r) : a # b => r[a] # r[b]}

\* "return {...}" of get_schema_for_query; chosen_by records what selected
\* the tables
Returned(tables, confidence, method, chosen_by) ==
    [status |-> "returned", tables |-> tables,
     confidence_score |-> confidence, search_method |-> method,
     chosen_by |-> chosen_by]

\* The reader after get_schema_for_query has ended with `ret`
Done(r, ret) == [ReaderIdle EXCEPT !.pc = "done",
                                   !.user_query = r.user_query,
                                   !.ret = ret]

\* The reader on entering _get_tables_by_keywords, called from `via`
EnterKeywords(r, via) ==
    [r EXCEPT !.pc = "kw_loop", !.via = via, !.relevant_tables = <<>>,
              !.matched_tables = MatchedTables(r.user_query)]

\* search_method of the result whose tables keyword matching chose: the
\* fallback inside the try block returns with the vector_search tag
KeywordMethod(via) ==
    IF via = "vector" THEN "vector_search" ELSE "keyword_fallback"

\* get_schema_for_query(): no client or no embedding model
RetrieveCompleteSchema ==
    /\ reader.pc \in {"idle", "done"}
    /\ history.reads < MaxReads
    /\ ~BackendAvailable
    /\ \E q \in Queries :
        reader' = Done([ReaderIdle EXCEPT !.user_query = q],
                       Returned(current_schema, "0.5", "complete_schema",
                                "all"))
    /\ history' = [history EXCEPT !.reads = @ + 1]
    /\ UNCHANGED <<file, clock, client_ok, embedding_ok, current_schema,
                   schema_hash, collection, writer>>
    /\ UNCHANGED notSchemaVars

\* get_schema_for_query(): embed the query and search the collection; a
\* search of a collection that does not exist raises into "except Exception"
RetrieveVectorSearch ==
    /\ reader.pc \in {"idle", "done"}
    /\ history.reads < MaxReads
    /\ BackendAvailable
    /\ \E q \in Queries :
        LET r == [ReaderIdle EXCEPT !.user_query = q]
        IN  IF collection.exists
              THEN \E answer \in SearchAnswers(collection.points, top_k) :
                      reader' = [r EXCEPT !.pc = "vec_loop",
                                          !.search_results = answer]
              ELSE reader' = EnterKeywords(r, "except")
    /\ history' = [history EXCEPT !.reads = @ + 1]
    /\ UNCHANGED <<file, clock, client_ok, embedding_ok, current_schema,
                   schema_hash, collection, writer>>
    /\ UNCHANGED notSchemaVars

\* "for result in search_results: if table_name in self.current_schema"
VectorLoopCheck ==
    /\ reader.pc = "vec_loop"
    /\ reader.i <= Len(reader.search_results)
    /\ LET table_name == reader.search_results[reader.i]
       IN  reader' =
            IF table_name \in TableNames(current_schema)
              THEN [reader EXCEPT !.pc = "vec_get", !.table_name = table_name]
              ELSE [reader EXCEPT !.i = @ + 1]
    /\ UNCHANGED <<file, clock, client_ok, embedding_ok, current_schema,
                   schema_hash, collection, writer, history>>
    /\ UNCHANGED notSchemaVars

\* "relevant_tables.append(self.current_schema[table_name])"; a KeyError is
\* caught by "except Exception"
VectorLoopGet ==
    /\ reader.pc = "vec_get"
    /\ reader' =
        IF reader.table_name \in TableNames(current_schema)
          THEN [reader EXCEPT
                    !.pc = "vec_loop", !.i = @ + 1,
                    !.relevant_tables =
                        Append(@, Lookup(current_schema, reader.table_name))]
          ELSE EnterKeywords(reader, "except")
    /\ UNCHANGED <<file, clock, client_ok, embedding_ok, current_schema,
                   schema_hash, collection, writer, history>>
    /\ UNCHANGED notSchemaVars

\* After the loop: "if not relevant_tables" falls back to the keywords inside
\* the try block, otherwise the vector_search result is returned
VectorLoopEnd ==
    /\ reader.pc = "vec_loop"
    /\ reader.i > Len(reader.search_results)
    /\ reader' =
        IF reader.relevant_tables = <<>>
          THEN EnterKeywords(reader, "vector")
          ELSE Done(reader, Returned(reader.relevant_tables, "mean_score",
                                     "vector_search", "vector"))
    /\ UNCHANGED <<file, clock, client_ok, embedding_ok, current_schema,
                   schema_hash, collection, writer, history>>
    /\ UNCHANGED notSchemaVars

\* _get_tables_by_keywords: "for table_name in matched_tables: if table_name
\* in self.current_schema" (a set is iterated in any order)
KeywordLoopCheck ==
    /\ reader.pc = "kw_loop"
    /\ \E table_name \in reader.matched_tables :
        reader' =
            IF table_name \in TableNames(current_schema)
              THEN [reader EXCEPT !.pc = "kw_get", !.table_name = table_name,
                                  !.matched_tables = @ \ {table_name}]
              ELSE [reader EXCEPT !.matched_tables = @ \ {table_name}]
    /\ UNCHANGED <<file, clock, client_ok, embedding_ok, current_schema,
                   schema_hash, collection, writer, history>>
    /\ UNCHANGED notSchemaVars

\* _get_tables_by_keywords: "relevant_tables.append(self.current_schema[
\* table_name])"; a KeyError inside the try block restarts the keyword
\* matching from the except handler, one inside the handler escapes
KeywordLoopGet ==
    /\ reader.pc = "kw_get"
    /\ reader' =
        IF reader.table_name \in TableNames(current_schema)
          THEN [reader EXCEPT
                    !.pc = "kw_loop",
                    !.relevant_tables =
                        Append(@, Lookup(current_schema, reader.table_name))]
          ELSE IF reader.via = "vector"
                 THEN EnterKeywords(reader, "except")
                 ELSE Done(reader, [NoResult EXCEPT !.status = "raised"])
    /\ UNCHANGED <<file, clock, client_ok, embedding_ok, current_schema,
                   schema_hash, collection, writer, history>>
    /\ UNCHANGED notSchemaVars

\* _get_tables_by_keywords returns; get_schema_for_query returns its tables
KeywordLoopEnd ==
    /\ reader.pc = "kw_loop"
    /\ reader.matched_tables = {}
    /\ reader' = Done(reader,
            Returned(reader.relevant_tables,
                     IF reader.via = "except" THEN "0.6"
                     ELSE IF reader.search_results # <<>> THEN "mean_score"
                     ELSE "0.7",
                     KeywordMethod(reader.via), "keywords"))
    /\ UNCHANGED <<file, clock, client_ok, embedding_ok, current_schema,
                   schema_hash, collection, writer, history>>
    /\ UNCHANGED notSchemaVars

NextSchema ==
    \/ EditSchemaFile
    \/ CheckForSchemaChanges
    \/ PublishChanges
    \/ ForceSchemaUpdate
    \/ LoadPublish
    \/ RebuildDelete
    \/ RebuildCreate
    \/ RebuildUpsert
    \/ ForceCheckParse
    \/ ForceFinish
    \/ RetrieveCompleteSchema
    \/ RetrieveVectorSearch
    \/ VectorLoopCheck
    \/ VectorLoopGet
    \/ VectorLoopEnd
    \/ KeywordLoopCheck
    \/ KeywordLoopGet
    \/ KeywordLoopEnd

-----------------------------------------------------------------------------
\* SQL generators: the strings they handle

Whitespace == {" ", "\n", "\t"}

RECURSIVE LStrip(_)
LStrip(s) ==
    IF s # <<>> /\ s[1] \in Whitespace THEN LStrip(Tail(s)) ELSE s

RECURSIVE RStrip(_)
RStrip(s) ==
    IF s # <<>> /\ s[Len(s)] \in Whitespace
      THEN RStrip(SubSeq(s, 1, Len(s) - 1))
      ELSE s

\* str.strip()
Strip(s) == RStrip(LStrip(s))

\* str.startswith, str.endswith
StartsWith(s, prefix) ==
    /\ Len(prefix) <= Len(s)
    /\ SubSeq(s, 1, Len(prefix)) = prefix

EndsWith(s, suffix) ==
    /\ Len(suffix) <= Len(s)
    /\ SubSeq(s, Len(s) - Len(suffix) + 1, Len(s)) = suffix

\* s[n:] and s[:-n]
DropFirst(s, n) == SubSeq(s, n + 1, Len(s))
DropLast(s, n) == SubSeq(s, 1, Len(s) - n)

\* The grave accent U+0060 of a code fence, as one character
Backtick == "grave"

FenceSql == <<Backtick, Backtick, Backtick, "s", "q", "l">>
Fence == <<Backtick, Backtick, Backtick>>

\* "Clean SQL" of generate_sql_with_current_schema and of
\* _generate_sql_with_llm_complete
CleanSql(reply) ==
    LET s1 == Strip(reply)
        s2 == IF StartsWith(s1, FenceSql) THEN DropFirst(s1, 6) ELSE s1
        s3 == IF StartsWith(s2, Fence) THEN DropFirst(s2, 3) ELSE s2
        s4 == IF EndsWith(s3, Fence) THEN DropLast(s3, 3) ELSE s3
    IN  Strip(s4)

\* "Clean up the SQL" of AvailabilityQueryGenerator._generate_with_llm: a
\* bare opening fence is not cut
CleanAvailabilitySql(reply) ==
    LET s1 == Strip(reply)
        s2 == IF StartsWith(s1, FenceSql) THEN DropFirst(s1, 6) ELSE s1
        s3 == IF EndsWith(s2, Fence) THEN DropLast(s2, 3) ELSE s2
    IN  Strip(s3)

\* The texts the chat model answers with
Select1 == <<"S", "E", "L", "E", "C", "T", " ", "1">>

LlmTexts ==
    { Select1,
      FenceSql \o <<"\n">> \o Select1 \o <<"\n">> \o Fence,
      Fence \o <<"\n">> \o Select1 \o <<"\n">> \o Fence,
      <<" ">> \o Select1 \o <<"\n">>,
      FenceSql \o <<"\n">> \o Fence,
      Fence \o Fence,
      <<" ", "\n">>,
      <<>> }

\* What chain.invoke(...) does: raise, or return a text
LlmReplies ==
    {[raises |-> TRUE, text |-> <<>>]}
    \cup {[raises |-> FALSE, text |-> t] : t \in LlmTexts}

-----------------------------------------------------------------------------
\* SQL generators: the tables they are given and the SQL they build

Column(name, is_primary_key) ==
    [name |-> name, is_primary_key |-> is_primary_key]

\* EnhancedSchemaRAG._get_fallback_schema: Patient and Employee
FallbackPatient ==
    [table_name |-> <<"P", "a", "t", "i", "e", "n", "t">>,
     columns |-> <<
        Column(<<"P", "a", "t", "i", "e", "n", "t", "I", "d">>, TRUE),
        Column(<<"F", "i", "r", "s", "t", "N", "a", "m", "e">>, FALSE),
        Column(<<"L", "a", "s", "t", "N", "a", "m", "e">>, FALSE),
        Column(<<"E", "m", "a", "i", "l">>, FALSE),
        Column(<<"I", "s", "A", "c", "t", "i", "v", "e">>, FALSE) >>,
     business_concepts |-> <<
        <<"p", "a", "t", "i", "e", "n", "t">>,
        <<"c", "l", "i", "e", "n", "t">>,
        <<"p", "e", "r", "s", "o", "n">> >>]

FallbackEmployee ==
    [table_name |-> <<"E", "m", "p", "l", "o", "y", "e", "e">>,
     columns |-> <<
        Column(<<"E", "m", "p", "l", "o", "y", "e", "e", "I", "d">>, TRUE),
        Column(<<"F", "i", "r", "s", "t", "N", "a", "m", "e">>, FALSE),
        Column(<<"L", "a", "s", "t", "N", "a", "m", "e">>, FALSE),
        Column(<<"E", "m", "a", "i", "l">>, FALSE),
        Column(<<"A", "c", "t", "i", "v", "e">>, FALSE) >>,
     business_concepts |-> <<
        <<"e", "m", "p", "l", "o", "y", "e", "e">>,
        <<"s", "t", "a", "f", "f">>,
        <<"p", "r", "o", "v", "i", "d", "e", "r">> >>]

\* Tables read from the database: Gender with its concepts of
\* _get_business_concepts, and a table the concepts map does not know, whose
\* only concept is its lower-cased name
GenderTable ==
    [table_name |-> <<"G", "e", "n", "d", "e", "r">>,
     columns |-> <<
        Column(<<"G", "e", "n", "d", "e", "r", "I", "D">>, TRUE),
        Column(<<"N", "a", "m", "e">>, FALSE) >>,
     business_concepts |-> <<
        <<"g", "e", "n", "d", "e", "r">>,
        <<"s", "e", "x">>,
        <<"m", "a", "l", "e">>,
        <<"f", "e", "m", "a", "l", "e">> >>]

AuditLogName == <<"A", "u", "d", "i", "t", "L", "o", "g">>

AuditLogTable ==
    [table_name |-> AuditLogName,
     columns |-> <<
        Column(<<"L", "o", "g", "g", "e", "d", "A", "t">>, FALSE),
        Column(<<"D", "e", "t", "a", "i", "l">>, FALSE) >>,
     business_concepts |-> << Lower(AuditLogName) >>]

\* The lists of tables the generators are called with
TableLists ==
    { <<>>,
      <<FallbackPatient>>,
      <<FallbackEmployee>>,
      <<FallbackPatient, FallbackEmployee>>,
      <<GenderTable, FallbackEmployee>>,
      <<GenderTable>>,
      <<AuditLogTable>> }

\* The requests the generators are called with
GenQueries ==
    { <<"h", "i">>,
      <<"S", "t", "a", "f", "f">>,
      <<"c", "l", "i", "e", "n", "t">>,
      <<"M", "o", "n", "d", "a", "y">> }

\* A generated SQL statement: the text a chat model wrote, a SELECT of a
\* literal, a SELECT of columns of one aliased table, or the availability
\* template
NoSql ==
    [form |-> "none", text |-> <<>>, message |-> "", select |-> <<>>,
     from |-> <<>>, alias |-> "", where |-> <<>>, weekday |-> 0,
     gender |-> ""]

SqlText(text) == [NoSql EXCEPT !.form = "text", !.text = text]

SqlLiteral(message) == [NoSql EXCEPT !.form = "literal", !.message = message]

SqlSelect(select, from, alias, where) ==
    [NoSql EXCEPT !.form = "select", !.select = select, !.from = from,
                  !.alias = alias, !.where = where]

\* seq[:n]
FirstN(seq, n) == SubSeq(seq, 1, IF Len(seq) < n THEN Len(seq) ELSE n)

\* the names of the columns, in order
Names(columns) == [i \in 1..Len(columns) |-> columns[i].name]

ActiveWord == <<"a", "c", "t", "i", "v", "e">>

\* DynamicSchemaManager._generate_basic_sql
GenerateBasicSql(user_query, tables) ==
    IF tables = <<>> THEN SqlLiteral("No tables available")
    ELSE
      LET main_table == tables[1]
          table_name == main_table.table_name
          table_alias == LowerChar(table_name[1])
          IsActiveColumn(col) == Contains(ActiveWord, Lower(col.name))
          columns == Names(FirstN(main_table.columns, 5))
          active_columns == Names(SelectSeq(main_table.columns,
                                            IsActiveColumn))
      IN  SqlSelect(columns, table_name, table_alias,
                    IF active_columns # <<>> THEN <<active_columns[1]>>
                    ELSE <<>>)

\* EnhancedSchemaRAG._determine_main_table_from_schema: priority_order
priority_order ==
    << <<"A", "p", "p", "o", "i", "n", "t", "m", "e", "n", "t">>,
       <<"P", "a", "t", "i", "e", "n", "t">>,
       <<"E", "m", "p", "l", "o", "y", "e", "e">>,
       <<"A", "u", "t", "h">>,
       <<"L", "o", "c", "a", "t", "i", "o", "n">> >>

\* EnhancedSchemaRAG._determine_main_table_from_schema
DetermineMainTable(query_lower, tables) ==
    LET Matches(table) ==
            \E k \in 1..Len(table.business_concepts) :
                Contains(table.business_concepts[k], query_lower)
        by_concept == SelectSeq(tables, Matches)
        Present(table_name) ==
            \E k \in 1..Len(tables) : tables[k].table_name = table_name
        by_priority == SelectSeq(priority_order, Present)
    IN  IF by_concept # <<>> THEN by_concept[1].table_name
        ELSE IF by_priority # <<>> THEN by_priority[1]
        ELSE IF tables # <<>> THEN tables[1].table_name
        ELSE <<"P", "a", "t", "i", "e", "n", "t">>

\* The name parts that make a column a "name column"
name_parts ==
    { <<"f", "i", "r", "s", "t", "n", "a", "m", "e">>,
      <<"l", "a", "s", "t", "n", "a", "m", "e">>,
      <<"n", "a", "m", "e">> }

Star == <<"*">>

\* EnhancedSchemaRAG._generate_sql_fallback
GenerateSqlFallback(user_query, tables) ==
    LET query_lower == Lower(user_query)
        main_table == DetermineMainTable(query_lower, tables)
        IsMain(table) == table.table_name = main_table
        found == SelectSeq(tables, IsMain)
    IN  IF found = <<>>
          THEN SqlLiteral("Error: Could not determine main table")
          ELSE
            LET main_table_obj == found[1]
                table_alias == LowerChar(main_table[1])
                Selected(col) ==
                    \/ col.is_primary_key
                    \/ \E part \in name_parts :
                          Contains(part, Lower(col.name))
                select_columns ==
                    Names(SelectSeq(main_table_obj.columns, Selected))
            IN  SqlSelect(IF select_columns = <<>> THEN <<Star>>
                          ELSE FirstN(select_columns, 5),
                          main_table, table_alias,
                          << <<"A", "c", "t", "i", "v", "e">>,
                             <<"I", "s", "A", "c", "t", "i", "v", "e">> >>)

\* AvailabilityQueryGenerator: weekday_mapping in the order of the dict
weekday_mapping ==
    << <<<<"m", "o", "n", "d", "a", "y">>, 1>>,
       <<<<"t", "u", "e", "s", "d", "a", "y">>, 2>>,
       <<<<"w", "e", "d", "n", "e", "s", "d", "a", "y">>, 3>>,
       <<<<"t", "h", "u", "r", "s", "d", "a", "y">>, 4>>,
       <<<<"f", "r", "i", "d", "a", "y">>, 5>>,
       <<<<"s", "a", "t", "u", "r", "d", "a", "y">>, 6>>,
       <<<<"s", "u", "n", "d", "a", "y">>, 7>> >>

\* AvailabilityQueryGenerator._extract_weekday: Wednesday if none is named
ExtractWeekday(text) ==
    LET text_lower == Lower(text)
        Named(entry) == Contains(entry[1], text_lower)
        named == SelectSeq(weekday_mapping, Named)
    IN  IF named # <<>> THEN named[1][2] ELSE 3

\* The gender filters of the metadata
Genders == {"", "Male"}

\* AvailabilityQueryGenerator._generate_rule_based: the availability template
\* for the weekday of the request and the gender of the metadata
GenerateRuleBased(query_text, gender) ==
    [NoSql EXCEPT !.form = "availability",
                  !.weekday = ExtractWeekday(query_text),
                  !.gender = gender]

-----------------------------------------------------------------------------
\* SQL generators: generate_sql_with_current_schema,
\* generate_sql_with_complete_schema and generate_availability_query

Generators ==
    {"DynamicSchemaManager", "EnhancedSchemaRAG", "AvailabilityQueryGenerator"}

\* The calls explored: the schema generators take the retrieved tables, the
\* availability generator takes the metadata
Requests ==
    {[generator |-> g, user_query |-> q, tables |-> t, gender |-> ""] :
        g \in {"DynamicSchemaManager", "EnhancedSchemaRAG"},
        q \in GenQueries, t \in TableLists}
    \cup
    {[generator |-> "AvailabilityQueryGenerator", user_query |-> q,
      tables |-> <<>>, gender |-> gender] :
        q \in GenQueries, gender \in Genders}

GenIdle ==
    [pc |-> "idle",
     ret |-> [status |-> "none", produced_by |-> "none", sql |-> NoSql]]

\* The generator has returned `sql`, built by the chat model ("llm") or by
\* the rules ("rule_based")
Produced(produced_by, sql) ==
    [pc |-> "done",
     ret |-> [status |-> "returned", produced_by |-> produced_by,
              sql |-> sql]]

InitGen ==
    /\ chat_available \in BOOLEAN
    /\ llm \in LlmReplies
    /\ request \in Requests
    /\ generation = GenIdle

\* DynamicSchemaManager.generate_sql_with_current_schema
GenerateSqlWithCurrentSchema ==
    /\ generation.pc = "idle"
    /\ request.generator = "DynamicSchemaManager"
    /\ generation' =
        IF ~chat_available \/ llm.raises
          THEN Produced("rule_based",
                        GenerateBasicSql(request.user_query, request.tables))
          ELSE Produced("llm", SqlText(CleanSql(llm.text)))
    /\ UNCHANGED <<chat_available, llm, request>>
    /\ UNCHANGED notGenVars

\* EnhancedSchemaRAG.generate_sql_with_complete_schema
GenerateSqlWithCompleteSchema ==
    /\ generation.pc = "idle"
    /\ request.generator = "EnhancedSchemaRAG"
    /\ generation' =
        IF ~chat_available \/ llm.raises
          THEN Produced("rule_based",
                        GenerateSqlFallback(request.user_query,
                                            request.tables))
          ELSE Produced("llm", SqlText(CleanSql(llm.text)))
    /\ UNCHANGED <<chat_available, llm, request>>
    /\ UNCHANGED notGenVars

\* AvailabilityQueryGenerator.generate_availability_query
GenerateAvailabilityQuery ==
    /\ generation.pc = "idle"
    /\ request.generator = "AvailabilityQueryGenerator"
    /\ generation' =
        IF ~chat_available \/ llm.raises
          THEN Produced("rule_based",
                        GenerateRuleBased(request.user_query, request.gender))
          ELSE Produced("llm", SqlText(CleanAvailabilitySql(llm.text)))
    /\ UNCHANGED <<chat_available, llm, request>>
    /\ UNCHANGED notGenVars

NextGen ==
    \/ GenerateSqlWithCurrentSchema
    \/ GenerateSqlWithCompleteSchema
    \/ GenerateAvailabilityQuery

\* The generators at rest
GenAtRest ==
    /\ chat_available = FALSE
    /\ llm = [raises |-> TRUE, text |-> <<>>]
    /\ request = [generator |-> "DynamicSchemaManager",
                  user_query |-> <<"h", "i">>, tables |-> <<>>,
                  gender |-> ""]
    /\ generation = GenIdle

-----------------------------------------------------------------------------
\* The chatbot turn: HealthcareResponseGenerator.generate_response and its
\* handlers (healthcare_chatbot_service.py), the stand-alone availability
\* processor (enhanced_availability_query_processor.py) and the /query route
\* (app/app.py)

\* The user messages explored
TurnMessages ==
    { <<"c", "h", "e", "c", "k", " ", "a", "v", "a", "i", "l", "a", "b", "i", "l", "i", "t", "y">>,
      <<"A", "v", "a", "i", "l", "a", "b", "i", "l", "i", "t", "y", " ", "o", "f", " ", "j", "o", "n">>,
      <<"f", "i", "n", "d", " ", "d", "o", "c", "t", "o", "r">>,
      <<"m", "y", " ", "a", "p", "p", "o", "i", "n", "t", "m", "e", "n", "t">>,
      <<"b", "o", "o", "k", " ", "a", "p", "p", "o", "i", "n", "t", "m", "e", "n", "t">>,
      <<"h", "e", "l", "l", "o">>,
      <<"c", "a", "n", "c", "e", "l", " ", "a", "p", "p", "o", "i", "n", "t", "m", "e", "n", "t">> }
\* self.intent_patterns in the order of the dict; every pattern has the form
\* first.*second and is written as the pair <<first, second>>
intent_patterns ==
    <<       <<"check_availability",
        <<
          <<<<"c", "h", "e", "c", "k">>, <<"a", "v", "a", "i", "l", "a", "b", "i", "l", "i", "t">>>>,
          <<<<"i", "s">>, <<"a", "v", "a", "i", "l", "a", "b", "l", "e">>>>,
          <<<<"f", "r", "e", "e">>, <<"t", "i", "m", "e">>>>,
          <<<<"w", "h", "e", "n">>, <<"a", "v", "a", "i", "l", "a", "b", "l", "e">>>>,
          <<<<"s", "c", "h", "e", "d", "u", "l", "e">>, <<"f", "o", "r">>>>,
          <<<<"g", "e", "t">>, <<"a", "v", "a", "i", "l", "a", "b", "i", "l", "i", "t", "y">>>>,
          <<<<"s", "h", "o", "w">>, <<"a", "v", "a", "i", "l", "a", "b", "i", "l", "i", "t", "y">>>>,
          <<<<"a", "v", "a", "i", "l", "a", "b", "i", "l", "i", "t", "y">>, <<"o", "f">>>>,
          <<<<"f", "i", "n", "d">>, <<"a", "v", "a", "i", "l", "a", "b", "i", "l", "i", "t", "y">>>> >> >>,
       <<"book_appointment",
        <<
          <<<<"b", "o", "o", "k">>, <<"a", "p", "p", "o", "i", "n", "t", "m", "e", "n", "t">>>>,
          <<<<"s", "c", "h", "e", "d", "u", "l", "e">>, <<"a", "p", "p", "o", "i", "n", "t", "m", "e", "n", "t">>>>,
          <<<<"m", "a", "k", "e">>, <<"a", "p", "p", "o", "i", "n", "t", "m", "e", "n", "t">>>>,
          <<<<"r", "e", "s", "e", "r", "v", "e">>, <<"t", "i", "m", "e">>>>,
          <<<<"s", "e", "t">>, <<"a", "p", "p", "o", "i", "n", "t", "m", "e", "n", "t">>>> >> >>,
       <<"find_provider",
        <<
          <<<<"f", "i", "n", "d">>, <<"t", "h", "e", "r", "a", "p", "i", "s", "t">>>>,
          <<<<"f", "i", "n", "d">>, <<"d", "o", "c", "t", "o", "r">>>>,
          <<<<"s", "h", "o", "w">>, <<"t", "h", "e", "r", "a", "p", "i", "s", "t">>>>,
          <<<<"l", "i", "s", "t">>, <<"p", "r", "o", "v", "i", "d", "e", "r">>>>,
          <<<<"w", "h", "o">>, <<"s", "p", "e", "c", "i", "a", "l", "i", "z", "e", "s">>>> >> >>,
       <<"get_appointments",
        <<
          <<<<"m", "y">>, <<"a", "p", "p", "o", "i", "n", "t", "m", "e", "n", "t">>>>,
          <<<<"s", "h", "o", "w">>, <<"a", "p", "p", "o", "i", "n", "t", "m", "e", "n", "t">>>>,
          <<<<"l", "i", "s", "t">>, <<"a", "p", "p", "o", "i", "n", "t", "m", "e", "n", "t">>>>,
          <<<<"u", "p", "c", "o", "m", "i", "n", "g">>, <<"a", "p", "p", "o", "i", "n", "t", "m", "e", "n", "t">>>> >> >>,
       <<"cancel_appointment",
        <<
          <<<<"c", "a", "n", "c", "e", "l">>, <<"a", "p", "p", "o", "i", "n", "t", "m", "e", "n", "t">>>>,
          <<<<"r", "e", "m", "o", "v", "e">>, <<"a", "p", "p", "o", "i", "n", "t", "m", "e", "n", "t">>>>,
          <<<<"d", "e", "l", "e", "t", "e">>, <<"a", "p", "p", "o", "i", "n", "t", "m", "e", "n", "t">>>> >> >> >>

\* re.search(first.*second, s): first occurs and second occurs after it
Search(pattern, s) ==
    \E i \in 0..(Len(s) - Len(pattern[1])) :
        /\ \A j \in 1..Len(pattern[1]) : s[i + j] = pattern[1][j]
        /\ Contains(pattern[2], SubSeq(s, i + Len(pattern[1]) + 1, Len(s)))

\* _analyze_intent: the first intent one of whose patterns matches the
\* lowercased message, 'general_query' if none does
AnalyzeIntent(message) ==
    LET message_lower == Lower(message)
        Matches(entry) ==
            \E k \in 1..Len(entry[2]) : Search(entry[2][k], message_lower)
        matched == SelectSeq(intent_patterns, Matches)
    IN  IF matched # <<>> THEN matched[1][1] ELSE "general_query"

\* [a-zA-Z\s]
IsNameChar(c) ==
    \/ c \in Whitespace
    \/ \E i \in 1..26 : c = LowerAlphabet[i] \/ c = UpperAlphabet[i]

\* The matches of  pre([a-zA-Z\s]+)post  in s: <<i, j>> when pre ends at
\* position i, the group is s[i+1..j] and post starts at j+1; with no post
\* the group runs as far as name characters go
Captures(pre, post, s) ==
    { ij \in (0..Len(s)) \X (1..Len(s)) :
        LET i == ij[1] - Len(pre)
            b == ij[1]
            j == ij[2]
        IN  /\ i >= 0
            /\ \A k \in 1..Len(pre) : s[i + k] = pre[k]
            /\ j > b
            /\ \A k \in (b + 1)..j : IsNameChar(s[k])
            /\ j + Len(post) <= Len(s)
            /\ \A k \in 1..Len(post) : s[j + k] = post[k]
            /\ post = <<>> => (j = Len(s) \/ ~IsNameChar(s[j + 1])) }

\* group(1).strip() of the leftmost, longest match; <<>> when there is none
Capture(pre, post, s) ==
    LET all == Captures(pre, post, s)
    IN  IF all = {} THEN <<>>
        ELSE LET b == CHOOSE x \in {ij[1] : ij \in all} :
                          \A y \in {ij[1] : ij \in all} : x <= y
                 ends == {ij[2] : ij \in {x \in all : x[1] = b}}
                 j == CHOOSE x \in ends : \A y \in ends : x >= y
             IN  Strip(SubSeq(s, b + 1, j))

\* len(str.split()): the number of words of a string
WordCount(s) ==
    Cardinality({ a \in 1..Len(s) :
                    /\ s[a] \notin Whitespace
                    /\ (a = 1 \/ s[a - 1] \in Whitespace) })

\* _extract_employee_name_from_query (the entities never carry
\* 'employee_name': _extract_entities sets names, date_references and times
\* only).  The patterns are tried in order on the lowercased message; runs
\* of whitespace in the explored messages are single spaces.  <<>> is None.
ExtractEmployeeNameFromQuery(message) ==
    LET message_lower == Lower(message)
        common_words ==
            { <<"w", "o", "r", "k">>, <<"m", "y">>, <<"t", "h", "e">>, <<"e", "m", "p", "l", "o", "y", "e", "e">>, <<"s", "t", "a", "f", "f">>, <<"d", "o", "c", "t", "o", "r">> }
        name_keywords ==
            << <<"f", "o", "r">>, <<"o", "f">>, <<"w", "i", "t", "h">> >>
        p1 == Capture(<<"a", "v", "a", "i", "l", "a", "b", "i", "l", "i", "t", "y", " ", "o", "f", " ">>, <<>>, message_lower)
        \* get.*availability.*of\s+(...): the group after the last "of "
        \* that "get" and then "availability" precede
        of2 == { ij \in Captures(<<"o", "f", " ">>, <<>>, message_lower) :
                   Search(<<<<"g", "e", "t">>, <<"a", "v", "a", "i", "l", "a", "b", "i", "l", "i", "t", "y">>>>, SubSeq(message_lower, 1, ij[1] - 3)) }
        last2 == CHOOSE ij \in of2 : \A other \in of2 : other[1] <= ij[1]
        p2 == Strip(SubSeq(message_lower, last2[1] + 1, last2[2]))
        p3 == Capture(<<"s", "h", "o", "w", " ">>, <<" ", "a", "v", "a", "i", "l", "a", "b", "i", "l", "i", "t", "y">>, message_lower)
        p4 == Capture(<<"w", "h", "e", "n", " ", "i", "s", " ">>, <<" ", "a", "v", "a", "i", "l", "a", "b", "l", "e">>, message_lower)
        p5 == Capture(<<>>, <<" ", "s", "c", "h", "e", "d", "u", "l", "e">>, message_lower)
        Named(keyword) ==
            LET potential_name == Capture(keyword \o <<" ">>, <<>>, message_lower)
                n == WordCount(potential_name)
            IN  Captures(keyword \o <<" ">>, <<>>, message_lower) # {} /\ 1 <= n /\ n <= 3
        named == SelectSeq(name_keywords, Named)
    IN  IF Captures(<<"a", "v", "a", "i", "l", "a", "b", "i", "l", "i", "t", "y", " ", "o", "f", " ">>, <<>>, message_lower) # {} THEN p1
        ELSE IF of2 # {} THEN p2
        ELSE IF Captures(<<"s", "h", "o", "w", " ">>, <<" ", "a", "v", "a", "i", "l", "a", "b", "i", "l", "i", "t", "y">>, message_lower) # {} THEN p3
        ELSE IF Captures(<<"w", "h", "e", "n", " ", "i", "s", " ">>, <<" ", "a", "v", "a", "i", "l", "a", "b", "l", "e">>, message_lower) # {} THEN p4
        ELSE IF Captures(<<>>, <<" ", "s", "c", "h", "e", "d", "u", "l", "e">>, message_lower) # {} /\ p5 \notin common_words THEN p5
        ELSE IF named # <<>>
               THEN Capture(named[1] \o <<" ">>, <<>>, message_lower)
               ELSE <<>>

\* _extract_query_intent
ExtractQueryIntent(query) ==
    LET query_lower == Lower(query)
        AnyWord(words) == \E word \in words : Contains(word, query_lower)
    IN  IF AnyWord({ <<"a", "v", "a", "i", "l", "a", "b", "l", "e">>, <<"a", "v", "a", "i", "l", "a", "b", "i", "l", "i", "t", "y">>, <<"f", "r", "e", "e">>, <<"o", "p", "e", "n">> })
          THEN "availability check"
        ELSE IF AnyWord({ <<"b", "o", "o", "k">>, <<"s", "c", "h", "e", "d", "u", "l", "e">>, <<"a", "p", "p", "o", "i", "n", "t", "m", "e", "n", "t">> })
          THEN "appointment booking"
        ELSE IF AnyWord({ <<"t", "h", "e", "r", "a", "p", "i", "s", "t">>, <<"p", "r", "o", "v", "i", "d", "e", "r">>, <<"d", "o", "c", "t", "o", "r">>, <<"s", "p", "e", "c", "i", "a", "l", "i", "s", "t">> })
          THEN "provider search"
        ELSE IF AnyWord({ <<"c", "a", "n", "c", "e", "l">>, <<"r", "e", "s", "c", "h", "e", "d", "u", "l", "e">>, <<"c", "h", "a", "n", "g", "e">> })
          THEN "appointment modification"
        ELSE "general information"

\* The rows a query returns: one schedule row, or none
ResultsOf(outcome) ==
    IF outcome = "rows"
      THEN << [EmployeeName |-> "Jon Snow", WeekDay |-> 2] >>
      ELSE <<>>

\* _generate_contextual_suggestions
GenerateContextualSuggestions(query, results) ==
    LET intent == ExtractQueryIntent(query)
        suggestions ==
            IF intent = "availability check"
              THEN <<"Book this appointment", "Check other times", "Find different provider">>
            ELSE IF intent = "appointment booking"
              THEN <<"Confirm appointment", "Check availability", "Find provider info">>
            ELSE IF intent = "provider search"
              THEN <<"Check availability", "Book appointment", "Get contact info">>
            ELSE IF intent = "appointment modification"
              THEN <<"Reschedule appointment", "Cancel appointment", "Contact provider">>
            ELSE <<"Book appointment", "Check availability", "Find provider">>
    IN  IF Len(results) > 5
          THEN <<"Show more results">> \o suggestions
          ELSE suggestions

\* _generate_availability_suggestions for rows that carry EmployeeName and
\* WeekDay: at most four suggestions
GenerateAvailabilitySuggestions(results) ==
    IF results = <<>>
      THEN <<"Try a different name", "Check another day",
             "Show all available staff", "Search by specialty">>
      ELSE LET first3 == SubSeq(results, 1, IF Len(results) < 3 THEN Len(results) ELSE 3)
               employee_names == {first3[i].EmployeeName : i \in 1..Len(first3)}
               days_mentioned == {first3[i].WeekDay : i \in 1..Len(first3)} \cap (1..7)
               byName == IF employee_names = {} THEN <<>>
                         ELSE <<"Book with first employee">>
                              \o (IF Cardinality(employee_names) > 1
                                    THEN <<"Compare all providers">> ELSE <<>>)
               byDay == IF days_mentioned = {} THEN <<>> ELSE <<"Check other days">>
               all == byName \o byDay
                      \o <<"Show full schedules", "Filter by time", "Find specialists">>
           IN  SubSeq(all, 1, 4)

\* str(e) of the exceptions raised during a turn: by the database, by
\* get_schema_for_query (a KeyError), by the embedding model, by the chat
\* model, by a query generator, and by the call of a handler with two
\* arguments too many
ExceptionText(raised_by) ==
    IF raised_by = "database"
      THEN "Invalid object name 'EmployeeAvailabilityDateTime'."
    ELSE IF raised_by = "schema" THEN "'Employee'"
    ELSE IF raised_by = "embedding" THEN "embedding model unavailable"
    ELSE IF raised_by = "llm" THEN "chat model unavailable"
    ELSE IF raised_by = "query_generator" THEN "no availability table in schema"
    ELSE IF raised_by = "_handle_booking_flow"
      THEN "_handle_booking_flow() takes 4 positional arguments but 6 were given"
    ELSE IF raised_by = "_handle_provider_search"
      THEN "_handle_provider_search() takes 3 positional arguments but 5 were given"
    ELSE "_handle_appointment_query() takes 3 positional arguments but 5 were given"

\* One entry of a chain of thoughts: the fixed text of the entry, the values
\* interpolated into it, the text of the error it quotes (if any) and, for
\* _log_thought, the category
NoError == ""

Thought(says, carries, error) ==
    [category |-> "", says |-> says, carries |-> carries, error |-> error]

\* EnhancedAvailabilityQueryProcessor._log_thought: the formatted entry
\* "[timestamp] CATEGORY: thought"
FormattedThought(says, carries, error, category) ==
    [category |-> category, says |-> says,
     carries |-> carries \cup {"timestamp"}, error |-> error]

\* ChatResponse and its __post_init__: suggested_actions and suggestions are
\* copied onto each other when only one of them is given.  The message is
\* the sequence of the fixed and the interpolated parts of its text.
ChatResponse(message, status, intent, suggested_actions, suggestions, chain_of_thoughts, error) ==
    [kind |-> "ChatResponse",
     message |-> message,
     status |-> status,
     intent |-> intent,
     suggested_actions |-> IF suggested_actions = <<>> THEN suggestions
                                                       ELSE suggested_actions,
     suggestions |-> IF suggestions = <<>> THEN suggested_actions
                                           ELSE suggestions,
     chain_of_thoughts |-> chain_of_thoughts,
     error |-> error]

NoResponse ==
    [kind |-> "none", message |-> <<>>, status |-> "", intent |-> "",
     suggested_actions |-> <<>>, suggestions |-> <<>>,
     chain_of_thoughts |-> <<>>, error |-> NoError]

\* What the collaborators of a turn do when they are called:
\*   schema           get_schema_for_query answers from the vector index,
\*                    catches a failure of the embedding / vector search and
\*                    answers from keywords, or raises
\*   llm              the chat model answers, or fails and the generator that
\*                    called it falls back to rule-based SQL
\*   query_generator  the availability query generators return SQL or raise
\*   query_processor  HealthcareQueryProcessor.process_query does not
\*                    understand the request, builds no SQL, or executes SQL
\*   db               the database returns rows, returns none, or fails
Dependencies ==
    [schema : {"ok", "embedding_fails", "raises"},
     llm : {"ok", "fails"},
     query_generator : {"ok", "raises"},
     query_processor : {"not_understood", "no_sql", "executes"},
     db : {"rows", "empty", "error"}]

\* The calls explored; model_choice is a form field of the /query route
UserTurns ==
    { t \in [entry : {"generate_response", "process_availability_query", "query"},
             user_message : TurnMessages,
             model_choice : {"local", "external"}] :
        t.entry # "query" => t.model_choice = "local" }

TurnIdle ==
    [pc |-> "start", intent |-> "", employee_name |-> <<>>,
     chain_of_thoughts |-> <<>>, conversation_history |-> <<>>,
     exception |-> NoError, response |-> NoResponse]

\* The attempts of the local model in the /query route: range(3)
QueryAttempts == 3

\* What the database does with an execution in the /query route: it returns
\* rows, or the driver raises an error that SQLAlchemy wraps as
\* OperationalError or as another DBAPIError (ProgrammingError)
RouteOutcomes == {"rows", "OperationalError", "ProgrammingError"}

RouteIdle(answers) ==
    [script |-> answers, attempt |-> 0, sql_query |-> "", last_error |-> "",
     prompts |-> <<>>, executions |-> <<>>]

\* The /query route uses the chat model and the database only
InitTurn ==
    /\ user_turn \in UserTurns
    /\ dependencies \in Dependencies
    /\ turn = TurnIdle
    /\ audit = [appended |-> <<>>, caught |-> <<>>, executed |-> FALSE]
    /\ route \in {RouteIdle(answers) : answers \in [1..QueryAttempts -> RouteOutcomes]}
    /\ IF user_turn.entry = "query"
         THEN /\ dependencies.schema = "ok"
              /\ dependencies.query_generator = "ok"
              /\ dependencies.query_processor = "executes"
              /\ dependencies.db = "rows"
         ELSE route.script = [i \in 1..QueryAttempts |-> "rows"]

\* list.append of each of the steps, in order
Appending(steps) == [audit EXCEPT !.appended = @ \o steps]

\* The turn sent its SQL to the database (bookkeeping)
Executed(a) == [a EXCEPT !.executed = TRUE]

\* An exception caught at a boundary (bookkeeping)
Caught(a, boundary, error) ==
    [a EXCEPT !.caught = Append(@, [boundary |-> boundary, error |-> error])]

\* get_schema_for_query and the SQL generators catch the failures of the
\* embedding model and of the chat model themselves and print them
CaughtInside(a, boundaries) ==
    LET a1 == IF "embedding" \in boundaries /\ dependencies.schema = "embedding_fails"
                THEN Caught(a, "embedding", ExceptionText("embedding")) ELSE a
    IN  IF "llm" \in boundaries /\ dependencies.llm = "fails"
          THEN Caught(a1, "llm", ExceptionText("llm")) ELSE a1

\* generate_response up to the dispatch on the intent
GenerateResponseStart ==
    /\ user_turn.entry = "generate_response"
    /\ turn.pc = "start"
    /\ LET steps == << Thought("Analyzed user query and detected intent", {"intent"}, NoError),
                       Thought("Extracted entities from query", {"entities"}, NoError),
                       Thought("Retrieved booking context, current step", {"booking_step"}, NoError) >>
       IN  /\ turn' = [turn EXCEPT !.pc = "dispatch",
                                   !.conversation_history = Append(@, "user"),
                                   !.intent = AnalyzeIntent(user_turn.user_message),
                                   !.chain_of_thoughts = @ \o steps]
           /\ audit' = Appending(steps)
    /\ UNCHANGED <<user_turn, dependencies, route>>
    /\ UNCHANGED notTurnVars

\* The handlers generate_response calls with chain_of_thoughts and
\* websocket_session_id although they take message and entities (and
\* booking_context) only
HandlerOf(intent) ==
    IF intent = "book_appointment" THEN "_handle_booking_flow"
    ELSE IF intent = "find_provider" THEN "_handle_provider_search"
    ELSE IF intent = "get_appointments" THEN "_handle_appointment_query"
    ELSE IF intent = "check_availability" THEN "_handle_availability_check"
    ELSE "_handle_general_query"

CallHandlerWithExtraArguments ==
    /\ turn.pc = "dispatch"
    /\ turn.intent \in {"book_appointment", "find_provider", "get_appointments"}
    /\ turn' = [turn EXCEPT !.pc = "except",
                            !.exception = ExceptionText(HandlerOf(turn.intent))]
    /\ UNCHANGED <<user_turn, dependencies, audit, route>>
    /\ UNCHANGED notTurnVars

\* _handle_availability_check up to the generation of the query
AvailabilityExtractName ==
    /\ turn.pc = "dispatch"
    /\ HandlerOf(turn.intent) = "_handle_availability_check"
    /\ LET employee_name == ExtractEmployeeNameFromQuery(user_turn.user_message)
           step == Thought("Searching for employee", {"employee_name"}, NoError)
       IN  IF employee_name = <<>>
             THEN /\ turn' = [turn EXCEPT
                        !.pc = "respond",
                        !.response = ChatResponse(
                            <<"I'd be happy to help you check employee availability! Could you please specify which employee you're looking for?">>,
                            "need_employee_name", "availability_clarification",
                            <<"Try: 'availability of [employee name]'",
                              "Try: 'show schedule for [employee name]'">>,
                            <<>>, turn.chain_of_thoughts, NoError)]
                  /\ audit' = audit
             ELSE /\ turn' = [turn EXCEPT !.pc = "availability_generate",
                                          !.employee_name = employee_name,
                                          !.chain_of_thoughts = Append(@, step)]
                  /\ audit' = Appending(<<step>>)
    /\ UNCHANGED <<user_turn, dependencies, route>>
    /\ UNCHANGED notTurnVars

\* get_availability_query_for_employee: it asks get_schema_for_query for the
\* schema and catches nothing itself
AvailabilityGenerateQuery ==
    /\ turn.pc = "availability_generate"
    /\ LET step == Thought("Generated SQL query for", {"employee_name"}, NoError)
       IN  IF dependencies.schema = "raises"
             THEN /\ turn' = [turn EXCEPT !.pc = "availability_except",
                                          !.exception = ExceptionText("schema")]
                  /\ audit' = audit
           ELSE IF dependencies.query_generator = "raises"
             THEN /\ turn' = [turn EXCEPT !.pc = "availability_except",
                                          !.exception = ExceptionText("query_generator")]
                  /\ audit' = CaughtInside(audit, {"embedding"})
           ELSE /\ turn' = [turn EXCEPT !.pc = "availability_execute",
                                        !.chain_of_thoughts = Append(@, step)]
                /\ audit' = CaughtInside(Appending(<<step>>), {"embedding"})
    /\ UNCHANGED <<user_turn, dependencies, route>>
    /\ UNCHANGED notTurnVars

\* _handle_availability_check from the execution of the query on: the result
\* object holds the very list chain_of_thoughts, which is then extended by
\* itself
AvailabilityExecute ==
    /\ turn.pc = "availability_execute"
    /\ LET results == ResultsOf(dependencies.db)
           result_chain_of_thoughts == turn.chain_of_thoughts
           chain_of_thoughts == turn.chain_of_thoughts \o result_chain_of_thoughts
           response ==
               IF dependencies.db = "rows"
                 THEN ChatResponse(<<"formatted availability results">>,
                                   "success", "availability_results",
                                   GenerateAvailabilitySuggestions(results), <<>>,
                                   chain_of_thoughts, NoError)
               ELSE IF dependencies.db = "empty"
                 THEN ChatResponse(
                        <<"I found the relevant information in our database, but no availability matches your query. The query was executed successfully against the employee schedules.">>,
                        "no_results", "no_availability_results",
                        <<"Try a different name", "Check different day", "Show all available staff">>,
                        <<>>, chain_of_thoughts, NoError)
               ELSE ChatResponse(
                        <<"I understand you're looking for availability information. I've analyzed the request and generated the appropriate query, but encountered an issue during execution: ",
                          ExceptionText("database"),
                          ". Please try rephrasing your request or contact support.">>,
                        "error", "availability_error",
                        <<"Try different wording", "Check database connection", "Contact support">>,
                        <<>>, chain_of_thoughts, ExceptionText("database"))
       IN  /\ turn' = [turn EXCEPT !.pc = "respond",
                                   !.chain_of_thoughts = chain_of_thoughts,
                                   !.response = response]
           /\ audit' = IF dependencies.db = "error"
                         THEN Caught(Executed(audit), "database", ExceptionText("database"))
                         ELSE Executed(audit)
    /\ UNCHANGED <<user_turn, dependencies, route>>
    /\ UNCHANGED notTurnVars

\* The except clause of _handle_availability_check: record the error and
\* fall back to _handle_advanced_availability_query
AvailabilityExcept ==
    /\ turn.pc = "availability_except"
    /\ LET step == Thought("Error in enhanced availability processing", {"error"}, turn.exception)
       IN  /\ turn' = [turn EXCEPT !.pc = "advanced_generate",
                                   !.exception = NoError,
                                   !.chain_of_thoughts = Append(@, step)]
           /\ audit' = Caught(Appending(<<step>>), "query_generation", turn.exception)
    /\ UNCHANGED <<user_turn, dependencies, route>>
    /\ UNCHANGED notTurnVars

\* _handle_advanced_availability_query up to the execution of the query;
\* AvailabilityQueryGenerator.generate_availability_query catches the failure
\* of its chat model and prints it
AdvancedGenerate ==
    /\ turn.pc = "advanced_generate"
    /\ LET before == << Thought("Initialized specialized availability query generator", {}, NoError),
                        Thought("Extracted metadata", {"metadata"}, NoError) >>
           generated == Thought("Generated specialized SQL query", {}, NoError)
           failed == Thought("Error in advanced availability query", {"error"},
                             ExceptionText("query_generator"))
       IN  IF dependencies.query_generator = "raises"
             THEN /\ turn' = [turn EXCEPT
                        !.pc = "respond",
                        !.chain_of_thoughts = @ \o before \o <<failed>>,
                        !.response = ChatResponse(
                            <<"I encountered an error while processing your availability request. Please try a simpler query or contact support.">>,
                            "error", "general",
                            <<"Try simpler query", "Contact support", "Check individual availability">>,
                            <<>>, turn.chain_of_thoughts \o before \o <<failed>>,
                            ExceptionText("query_generator"))]
                  /\ audit' = Caught(CaughtInside(Appending(before \o <<failed>>), {"llm"}),
                                     "query_generation", ExceptionText("query_generator"))
             ELSE /\ turn' = [turn EXCEPT
                        !.pc = "advanced_execute",
                        !.chain_of_thoughts = @ \o before \o <<generated>>]
                  /\ audit' = CaughtInside(Appending(before \o <<generated>>), {"llm"})
    /\ UNCHANGED <<user_turn, dependencies, route>>
    /\ UNCHANGED notTurnVars

\* _handle_advanced_availability_query: the execution of the query
AdvancedExecute ==
    /\ turn.pc = "advanced_execute"
    /\ LET results == ResultsOf(dependencies.db)
           step == IF dependencies.db = "error"
                     THEN Thought("Database error", {"error"}, ExceptionText("database"))
                     ELSE Thought("Query executed successfully, found", {"row_count"}, NoError)
           chain_of_thoughts == Append(turn.chain_of_thoughts, step)
           response ==
               IF dependencies.db = "rows"
                 THEN ChatResponse(<<"formatted availability list">>,
                                   "success", "general",
                                   <<"Book with available employee", "Check specific availability",
                                     "Filter by different criteria">>,
                                   <<>>, chain_of_thoughts, NoError)
               ELSE IF dependencies.db = "empty"
                 THEN ChatResponse(
                        <<"I couldn't find any employees available with the specified criteria. Please try different filters or check a different date.">>,
                        "no_results", "general",
                        <<"Try different date", "Remove some filters", "Check all employees">>,
                        <<>>, chain_of_thoughts, NoError)
               ELSE ChatResponse(
                        <<"I encountered a database error while searching for available employees. Please try again or contact support. Error: ",
                          ExceptionText("database")>>,
                        "database_error", "general",
                        <<"Try again", "Contact support", "Use simpler query">>,
                        <<>>, chain_of_thoughts, ExceptionText("database"))
       IN  /\ turn' = [turn EXCEPT !.pc = "respond",
                                   !.chain_of_thoughts = chain_of_thoughts,
                                   !.response = response]
           /\ audit' = IF dependencies.db = "error"
                         THEN Caught(Executed(Appending(<<step>>)), "database", ExceptionText("database"))
                         ELSE Executed(Appending(<<step>>))
    /\ UNCHANGED <<user_turn, dependencies, route>>
    /\ UNCHANGED notTurnVars

\* _handle_general_query, which is given no chain_of_thoughts: the schema
\* check and retrieval
GeneralRetrieveSchema ==
    /\ turn.pc = "dispatch"
    /\ HandlerOf(turn.intent) = "_handle_general_query"
    /\ IF dependencies.schema = "raises"
         THEN /\ turn' = [turn EXCEPT !.pc = "general_fallback",
                                      !.exception = ExceptionText("schema")]
              /\ audit' = audit
         ELSE /\ turn' = [turn EXCEPT !.pc = "general_generate"]
              /\ audit' = CaughtInside(audit, {"embedding"})
    /\ UNCHANGED <<user_turn, dependencies, route>>
    /\ UNCHANGED notTurnVars

\* _handle_general_query: generate_sql_with_current_schema and log_query
GeneralGenerateSql ==
    /\ turn.pc = "general_generate"
    /\ turn' = [turn EXCEPT !.pc = "general_execute"]
    /\ audit' = CaughtInside(audit, {"llm"})
    /\ UNCHANGED <<user_turn, dependencies, route>>
    /\ UNCHANGED notTurnVars

\* _handle_general_query: the execution of the query
GeneralExecute ==
    /\ turn.pc = "general_execute"
    /\ LET results == ResultsOf(dependencies.db)
           response ==
               IF dependencies.db = "rows"
                 THEN ChatResponse(<<"formatted query results">>,
                                   "success", "rag_query_results", <<>>,
                                   GenerateContextualSuggestions(user_turn.user_message, results),
                                   <<>>, NoError)
               ELSE IF dependencies.db = "empty"
                 THEN ChatResponse(
                        <<"I found the relevant information in our database, but no results matched your query. The query searched through ",
                          "table names", " tables.">>,
                        "success", "no_results", <<>>,
                        <<"Try a different search", "Check spelling", "Use different keywords">>,
                        <<>>, NoError)
               ELSE ChatResponse(
                        <<"I understand you're looking for information about ",
                          ExtractQueryIntent(user_turn.user_message),
                          ". I've identified the relevant database tables (",
                          "table names",
                          ") and generated the appropriate query, but I'm currently unable to connect to the database to get the results. Please check your database connection.">>,
                        "success", "database_unavailable", <<>>,
                        <<"Check database connection", "Try again later", "Contact system administrator">>,
                        <<>>, ExceptionText("database"))
       IN  /\ turn' = [turn EXCEPT !.pc = "respond", !.response = response]
           /\ audit' = IF dependencies.db = "error"
                         THEN Caught(Executed(audit), "database", ExceptionText("database"))
                         ELSE Executed(audit)
    /\ UNCHANGED <<user_turn, dependencies, route>>
    /\ UNCHANGED notTurnVars

\* The except clause of _handle_general_query: the exception is printed and
\* HealthcareQueryProcessor.process_query answers instead; process_query
\* catches the failure of its own query and quotes it in its message
GeneralFallback ==
    /\ turn.pc = "general_fallback"
    /\ LET default == <<"Check availability", "Book an appointment", "Find a therapist">>
           response ==
               IF dependencies.query_processor = "not_understood"
                 THEN ChatResponse(
                        <<"I couldn't understand your request. Please try rephrasing.">>,
                        "success", "general", <<>>,
                        <<"Check availability of John this Wednesday",
                          "Find appointments for Sarah next Monday",
                          "Show me John's schedule today",
                          "What appointments does Dr. Smith have tomorrow?">>,
                        <<>>, NoError)
               ELSE IF dependencies.query_processor = "no_sql"
                 THEN ChatResponse(
                        <<"I couldn't generate a query for your request.">>,
                        "success", "general", <<>>, default, <<>>, NoError)
               ELSE IF dependencies.db = "error"
                 THEN ChatResponse(
                        <<"An error occurred while processing your query: ", ExceptionText("database")>>,
                        "success", "general", <<>>, default, <<>>, NoError)
               ELSE ChatResponse(<<"formatted query results">>,
                                 "success", "fallback_query_results", <<>>,
                                 <<"Book an appointment", "Check availability", "Find more providers">>,
                                 <<>>, NoError)
           caught == Caught(audit, "schema", turn.exception)
       IN  /\ turn' = [turn EXCEPT !.pc = "respond",
                                   !.exception = NoError,
                                   !.response = response]
           /\ audit' = IF dependencies.query_processor # "executes" THEN caught
                       ELSE IF dependencies.db = "error"
                         THEN Caught(Executed(caught), "database", ExceptionText("database"))
                         ELSE Executed(caught)
    /\ UNCHANGED <<user_turn, dependencies, route>>
    /\ UNCHANGED notTurnVars

\* generate_response after its handler returned: the chain of thoughts of
\* generate_response replaces the one of the response
GenerateResponseReturn ==
    /\ user_turn.entry = "generate_response"
    /\ turn.pc = "respond"
    /\ LET step == Thought("Response generated successfully in", {"elapsed"}, NoError)
           chain_of_thoughts == Append(turn.chain_of_thoughts, step)
       IN  /\ turn' = [turn EXCEPT !.pc = "done",
                                   !.conversation_history = Append(@, "assistant"),
                                   !.chain_of_thoughts = chain_of_thoughts,
                                   !.response.chain_of_thoughts = chain_of_thoughts]
           /\ audit' = Appending(<<step>>)
    /\ UNCHANGED <<user_turn, dependencies, route>>
    /\ UNCHANGED notTurnVars

\* The except clause of generate_response
GenerateResponseExcept ==
    /\ user_turn.entry = "generate_response"
    /\ turn.pc = "except"
    /\ LET step == Thought("Error occurred", {"error"}, turn.exception)
           chain_of_thoughts == Append(turn.chain_of_thoughts, step)
       IN  /\ turn' = [turn EXCEPT
                  !.pc = "done",
                  !.exception = NoError,
                  !.chain_of_thoughts = chain_of_thoughts,
                  !.response = ChatResponse(
                      <<"I apologize, but I encountered an error processing your request. Please try again or contact support if the issue persists.">>,
                      "error", "general", <<>>, <<>>, chain_of_thoughts, NoError)]
           /\ audit' = Caught(Appending(<<step>>), "handler", turn.exception)
    /\ UNCHANGED <<user_turn, dependencies, route>>
    /\ UNCHANGED notTurnVars

\* AvailabilityQueryResult, in the shape of a response: no message and no
\* suggestions, error_message under error
AvailabilityQueryResult(success, chain_of_thoughts, error_message) ==
    [kind |-> "AvailabilityQueryResult",
     message |-> <<>>,
     status |-> IF success THEN "success" ELSE "failure",
     intent |-> "",
     suggested_actions |-> <<>>,
     suggestions |-> <<>>,
     chain_of_thoughts |-> chain_of_thoughts,
     error |-> error_message]

\* process_availability_query up to the generation of the query: the steps
\* that _analyze_query_intent and _perform_schema_analysis log whatever the
\* request and the schema are
ProcessorAnalyze ==
    /\ user_turn.entry = "process_availability_query"
    /\ turn.pc = "start"
    /\ LET before == << FormattedThought("Processing query", {"user_query"}, NoError, "START"),
                        FormattedThought("Starting query intent analysis", {}, NoError, "INTENT"),
                        FormattedThought("Intent analysis complete. Confidence", {"intent_confidence"}, NoError, "INTENT"),
                        FormattedThought("Starting schema analysis", {}, NoError, "SCHEMA") >>
           failed == FormattedThought("Failed to get schema", {"error"}, ExceptionText("schema"), "ERROR")
           after == << FormattedThought("Retrieved schema using", {"search_method", "table_count"}, NoError, "SCHEMA"),
                       FormattedThought("Schema analysis complete", {}, NoError, "SCHEMA") >>
       IN  IF dependencies.schema = "raises"
             THEN /\ turn' = [turn EXCEPT
                        !.pc = "done",
                        !.chain_of_thoughts = before \o <<failed>>,
                        !.response = AvailabilityQueryResult(FALSE, before \o <<failed>>,
                                                             ExceptionText("schema"))]
                  /\ audit' = Caught([audit EXCEPT !.appended = before \o <<failed>>],
                                     "schema", ExceptionText("schema"))
             ELSE /\ turn' = [turn EXCEPT !.pc = "processor_generate",
                                          !.chain_of_thoughts = before \o after]
                  /\ audit' = CaughtInside([audit EXCEPT !.appended = before \o after],
                                           {"embedding"})
    /\ UNCHANGED <<user_turn, dependencies, route>>
    /\ UNCHANGED notTurnVars

\* process_availability_query: _generate_availability_query
ProcessorGenerate ==
    /\ turn.pc = "processor_generate"
    /\ LET steps == << FormattedThought("Starting SQL query generation", {}, NoError, "QUERY"),
                       FormattedThought("Using employee table", {"tables"}, NoError, "QUERY"),
                       FormattedThought("SQL query generation complete", {}, NoError, "QUERY"),
                       FormattedThought("Generated query", {"sql"}, NoError, "QUERY") >>
       IN  IF dependencies.query_generator = "raises"
             THEN /\ turn' = [turn EXCEPT !.pc = "processor_except",
                                          !.exception = ExceptionText("query_generator"),
                                          !.chain_of_thoughts = Append(@, steps[1])]
                  /\ audit' = Appending(<<steps[1]>>)
             ELSE /\ turn' = [turn EXCEPT !.pc = "processor_execute",
                                          !.chain_of_thoughts = @ \o steps]
                  /\ audit' = Appending(steps)
    /\ UNCHANGED <<user_turn, dependencies, route>>
    /\ UNCHANGED notTurnVars

\* _execute_query and the return of process_availability_query
ProcessorExecute ==
    /\ turn.pc = "processor_execute"
    /\ LET outcome == IF dependencies.db = "error"
                        THEN FormattedThought("Query execution failed", {"error"}, ExceptionText("database"), "ERROR")
                        ELSE FormattedThought("Query executed successfully.", {"row_count"}, NoError, "EXECUTION")
           steps == << FormattedThought("Executing SQL query", {}, NoError, "EXECUTION"),
                       outcome,
                       FormattedThought("Total processing time", {"elapsed"}, NoError, "COMPLETION") >>
           chain_of_thoughts == turn.chain_of_thoughts \o steps
       IN  /\ turn' = [turn EXCEPT
                  !.pc = "done",
                  !.chain_of_thoughts = chain_of_thoughts,
                  !.response = AvailabilityQueryResult(
                                   dependencies.db # "error", chain_of_thoughts,
                                   IF dependencies.db = "error" THEN ExceptionText("database") ELSE NoError)]
           /\ audit' = IF dependencies.db = "error"
                         THEN Caught(Executed(Appending(steps)), "database", ExceptionText("database"))
                         ELSE Executed(Appending(steps))
    /\ UNCHANGED <<user_turn, dependencies, route>>
    /\ UNCHANGED notTurnVars

\* The except clause of process_availability_query
ProcessorExcept ==
    /\ turn.pc = "processor_except"
    /\ LET step == FormattedThought("Processing failed", {"error"}, turn.exception, "ERROR")
           chain_of_thoughts == Append(turn.chain_of_thoughts, step)
       IN  /\ turn' = [turn EXCEPT
                  !.pc = "done",
                  !.exception = NoError,
                  !.chain_of_thoughts = chain_of_thoughts,
                  !.response = AvailabilityQueryResult(FALSE, chain_of_thoughts,
                                                       turn.exception)]
           /\ audit' = Caught(Appending(<<step>>), "query_generation", turn.exception)
    /\ UNCHANGED <<user_turn, dependencies, route>>
    /\ UNCHANGED notTurnVars

\* What result.html is rendered with, in the shape of a response: the error
\* shown to the user under message
ResultPage(error) ==
    [kind |-> "result.html",
     message |-> error,
     status |-> IF error = <<>> THEN "success" ELSE "error",
     intent |-> "",
     suggested_actions |-> <<>>,
     suggestions |-> <<>>,
     chain_of_thoughts |-> <<>>,
     error |-> NoError]

\* The SQL the chat model writes at each attempt
GeneratedSql == <<"SELECT 1", "SELECT 2", "SELECT 3">>

\* The except clause of the /query route (142-146)
QueryExcept(error_message) ==
    /\ turn' = [turn EXCEPT !.pc = "done", !.response = ResultPage(error_message)]
    /\ UNCHANGED <<user_turn, dependencies>>
    /\ UNCHANGED notTurnVars

\* The /query route with model_choice 'external': the API writes the SQL,
\* which is executed once
QueryExternal ==
    /\ user_turn.entry = "query"
    /\ user_turn.model_choice = "external"
    /\ turn.pc = "start"
    /\ LET sql_query == GeneratedSql[1]
           outcome == route.script[1]
           executed == [route EXCEPT !.attempt = 1,
                                     !.sql_query = sql_query,
                                     !.prompts = <<[failed_sql |-> "", error |-> ""]>>,
                                     !.executions = <<[sql |-> sql_query, outcome |-> outcome]>>]
       IN  IF dependencies.llm = "fails"
             THEN /\ QueryExcept(<<"Could not connect to Ollama or the External API. Please make sure the selected service is running.">>)
                  /\ audit' = Caught(audit, "llm", ExceptionText("llm"))
                  /\ route' = route
           ELSE IF outcome = "rows"
             THEN /\ turn' = [turn EXCEPT !.pc = "done", !.response = ResultPage(<<>>)]
                  /\ audit' = Executed(audit)
                  /\ route' = executed
                  /\ UNCHANGED <<user_turn, dependencies>>
                  /\ UNCHANGED notTurnVars
           ELSE /\ QueryExcept(<<ExceptionText("database")>>)
                /\ audit' = Caught(Executed(audit), "database", ExceptionText("database"))
                /\ route' = executed

\* One pass of the loop of the local model: the prompt carries the SQL and
\* the error of the previous attempt when there is one, the chat model
\* writes the SQL anew and it is executed; only OperationalError is caught
\* in the loop
QueryAttempt ==
    /\ user_turn.entry = "query"
    /\ user_turn.model_choice = "local"
    /\ turn.pc \in {"start", "attempt"}
    /\ route.attempt < QueryAttempts
    /\ LET attempt == route.attempt + 1
           error_feedback ==
               IF route.last_error # ""
                 THEN [failed_sql |-> route.sql_query, error |-> route.last_error]
                 ELSE [failed_sql |-> "", error |-> ""]
           sql_query == GeneratedSql[attempt]
           outcome == route.script[attempt]
           executed == [route EXCEPT !.attempt = attempt,
                                     !.sql_query = sql_query,
                                     !.prompts = Append(@, error_feedback),
                                     !.executions = Append(@, [sql |-> sql_query,
                                                               outcome |-> outcome])]
       IN  IF dependencies.llm = "fails"
             THEN /\ QueryExcept(<<"Could not connect to Ollama or the External API. Please make sure the selected service is running.">>)
                  /\ audit' = Caught(audit, "llm", ExceptionText("llm"))
                  /\ route' = [route EXCEPT !.prompts = Append(@, error_feedback)]
           ELSE IF outcome = "rows"
             THEN /\ turn' = [turn EXCEPT !.pc = "done", !.response = ResultPage(<<>>)]
                  /\ audit' = Executed(audit)
                  /\ route' = executed
                  /\ UNCHANGED <<user_turn, dependencies>>
                  /\ UNCHANGED notTurnVars
           ELSE IF outcome = "OperationalError"
             THEN /\ turn' = [turn EXCEPT !.pc = "attempt"]
                  /\ audit' = Caught(Executed(audit), "database", ExceptionText("database"))
                  /\ route' = [executed EXCEPT !.last_error = ExceptionText("database")]
                  /\ UNCHANGED <<user_turn, dependencies>>
                  /\ UNCHANGED notTurnVars
           ELSE /\ QueryExcept(<<ExceptionText("database")>>)
                /\ audit' = Caught(Executed(audit), "database", ExceptionText("database"))
                /\ route' = executed

\* After the last pass of the loop: "If all retries fail"
QueryGiveUp ==
    /\ user_turn.entry = "query"
    /\ turn.pc = "attempt"
    /\ route.attempt = QueryAttempts
    /\ turn' = [turn EXCEPT
           !.pc = "done",
           !.response = ResultPage(<<"The query failed after multiple attempts. Last error: ",
                                     route.last_error>>)]
    /\ UNCHANGED <<user_turn, dependencies, audit, route>>
    /\ UNCHANGED notTurnVars

NextTurn ==
    \/ GenerateResponseStart
    \/ CallHandlerWithExtraArguments
    \/ AvailabilityExtractName
    \/ AvailabilityGenerateQuery
    \/ AvailabilityExecute
    \/ AvailabilityExcept
    \/ AdvancedGenerate
    \/ AdvancedExecute
    \/ GeneralRetrieveSchema
    \/ GeneralGenerateSql
    \/ GeneralExecute
    \/ GeneralFallback
    \/ GenerateResponseReturn
    \/ GenerateResponseExcept
    \/ ProcessorAnalyze
    \/ ProcessorGenerate
    \/ ProcessorExecute
    \/ ProcessorExcept
    \/ QueryExternal
    \/ QueryAttempt
    \/ QueryGiveUp

\* A turn at rest
TurnAtRest ==
    /\ user_turn = [entry |-> "generate_response",
                    user_message |-> <<"h", "e", "l", "l", "o">>,
                    model_choice |-> "local"]
    /\ dependencies = [schema |-> "ok", llm |-> "ok", query_generator |-> "ok",
                       query_processor |-> "executes", db |-> "rows"]
    /\ turn = [TurnIdle EXCEPT !.pc = "done"]
    /\ audit = [appended |-> <<>>, caught |-> <<>>, executed |-> FALSE]
    /\ route = RouteIdle([i \in 1..QueryAttempts |-> "rows"])

-----------------------------------------------------------------------------
\* Result formatting (healthcare_chatbot_service.py) and the weekday codes of
\* the SQL generators

\* Bound on the number of rows formatted
MaxRows == 7

\* The number of rows the availability, provider and generic formatters
\* render, and the number the appointment formatter renders
RowCap == 5
AppointmentRowCap == 3

\* The requests formatted
FormatQueries ==
    { <<"a", "v", "a", "i", "l", "a", "b", "l", "e", " ", "s", "t", "a", "f", "f">>,
      <<"b", "o", "o", "k", " ", "v", "i", "s", "i", "t">>,
      <<"l", "i", "s", "t", " ", "p", "r", "o", "v", "i", "d", "e", "r">>,
      <<"f", "i", "n", "d", " ", "t", "h", "e", "r", "a", "p", "i", "s", "t">>,
      <<"h", "e", "l", "l", "o">> }

\* _format_availability_results: day_mapping, codes 1..7
day_mapping ==
    << <<"S", "u", "n", "d", "a", "y">>, <<"M", "o", "n", "d", "a", "y">>, <<"T", "u", "e", "s", "d", "a", "y">>, <<"W", "e", "d", "n", "e", "s", "d", "a", "y">>, <<"T", "h", "u", "r", "s", "d", "a", "y">>, <<"F", "r", "i", "d", "a", "y">>, <<"S", "a", "t", "u", "r", "d", "a", "y">> >>

\* EnhancedAvailabilityQueryProcessor._generate_availability_query: the
\* day_number of a day_filter (372-377)
DayNumber(day_filter) ==
    LET names == << <<"s", "u", "n", "d", "a", "y">>, <<"m", "o", "n", "d", "a", "y">>, <<"t", "u", "e", "s", "d", "a", "y">>, <<"w", "e", "d", "n", "e", "s", "d", "a", "y">>, <<"t", "h", "u", "r", "s", "d", "a", "y">>, <<"f", "r", "i", "d", "a", "y">>, <<"s", "a", "t", "u", "r", "d", "a", "y">> >>
    IN  CHOOSE k \in 1..7 : names[k] = Lower(day_filter)

\* The WeekDay code the SQL of a generator filters on for a weekday name:
\* AvailabilityQueryGenerator uses weekday_mapping (_extract_weekday)
WeekDayCode(generator, day) ==
    IF generator = "AvailabilityQueryGenerator"
      THEN ExtractWeekday(day)
      ELSE DayNumber(day)

\* A formatted message: its opening sentence, the entries rendered, the
\* number of further results it states (0 when it states none) and the total
\* it states (-1 when it states none)
Formatted(opening, entries, more, total) ==
    [opening |-> opening, entries |-> entries, more |-> more, total |-> total]

\* _format_availability_results(query, results, sql_query).  The argument
\* results is a list of rows or, when the caller passes a str, the
\* characters of that str: an element that is not a dict has no get() and is
\* rendered by the except clause of the loop.
FormatAvailabilityResults(query, results, sql_query) ==
    IF results.items = <<>>
      THEN Formatted("I analyzed your query and searched the employee schedules, but couldn't find any matching availability information.",
                     <<>>, 0, -1)
      ELSE LET n == Len(results.items)
               shown == IF n < RowCap THEN n ELSE RowCap
               Entry(i) ==
                   IF results.type = "list"
                     THEN LET week_day == results.items[i].WeekDay
                          IN  [form |-> "schedule",
                               day_name |-> IF week_day \in DOMAIN day_mapping
                                              THEN day_mapping[week_day]
                                              ELSE <<"D", "a", "y">>]
                     ELSE [form |-> "str(result)", day_name |-> <<>>]
           IN  Formatted("Here's the availability information for your query",
                         [i \in 1..shown |-> Entry(i)],
                         IF n > RowCap THEN n - RowCap ELSE 0,
                         n)

\* _format_appointment_results(results, query)
FormatAppointmentResults(results, query) ==
    IF results.items = <<>>
      THEN Formatted("I couldn't find any appointment information. Would you like to book a new appointment?",
                     <<>>, 0, -1)
      ELSE LET n == Len(results.items)
               shown == IF n < AppointmentRowCap THEN n ELSE AppointmentRowCap
           IN  Formatted("Here are the appointment details I found",
                         [i \in 1..shown |-> [form |-> "appointment", day_name |-> <<>>]],
                         0, -1)

\* _format_provider_results(results, query)
FormatProviderResults(results, query) ==
    IF results.items = <<>>
      THEN Formatted("I couldn't find any providers matching your criteria. Please try different search terms.",
                     <<>>, 0, -1)
      ELSE LET n == Len(results.items)
               shown == IF n < RowCap THEN n ELSE RowCap
           IN  Formatted("Here are the providers I found",
                         [i \in 1..shown |-> [form |-> "provider", day_name |-> <<>>]],
                         0, -1)

\* _format_rag_query_results.  The availability formatter is called with
\* (results, original_query) for its parameters (query, results); the
\* generic branch reads t["name"] of the tables, which carry table_name, and
\* the KeyError ends in the except clause.
FormatRagQueryResults(original_query, results, has_tables) ==
    LET intent == ExtractQueryIntent(original_query)
        result_count == Len(results.items)
        shown == IF result_count < RowCap THEN result_count ELSE RowCap
    IN  IF intent = "availability check"
           \/ Contains(<<"a", "v", "a", "i", "l", "a", "b", "l", "e">>, Lower(original_query))
          THEN FormatAvailabilityResults(results,
                                         [type |-> "str", items |-> original_query],
                                         "")
        ELSE IF intent \in {"appointment booking", "appointment modification"}
                \/ Contains(<<"b", "o", "o", "k">>, Lower(original_query))
          THEN FormatAppointmentResults(results, original_query)
        ELSE IF Contains(<<"p", "r", "o", "v", "i", "d", "e", "r">>, Lower(original_query))
          THEN FormatProviderResults(results, original_query)
        ELSE IF has_tables
          THEN Formatted("I found results for your query.", <<>>, 0, result_count)
        ELSE IF result_count = 0
          THEN Formatted("I searched through the tables but couldn't find any results", <<>>, 0, -1)
        ELSE Formatted("I found results in our database",
                       [i \in 1..shown |-> [form |-> "compact", day_name |-> <<>>]],
                       0, result_count)

\* The calls explored: the formatter called, the request, the weekday the
\* request names, the generator that wrote the SQL, the number of rows the
\* database returned and whether the schema result holds tables
FormatCalls ==
    [formatter : {"_format_rag_query_results", "_format_availability_results"},
     query : FormatQueries,
     day : {weekday_mapping[k][1] : k \in 1..7},
     generator : {"AvailabilityQueryGenerator", "EnhancedAvailabilityQueryProcessor"},
     rows : 0..MaxRows,
     has_tables : BOOLEAN]

\* The rows of a call: each carries the WeekDay code the SQL filtered on
RowsOf(call) ==
    [type |-> "list",
     items |-> [i \in 1..call.rows |->
                   [EmployeeName |-> "Jon Snow",
                    WeekDay |-> WeekDayCode(call.generator, call.day)]]]

NotFormatted == Formatted("", <<>>, 0, -1)

InitFormat ==
    /\ format_call \in FormatCalls
    /\ formatted = [pc |-> "start", message |-> NotFormatted]

\* A call of _format_rag_query_results
CallFormatRagQueryResults ==
    /\ formatted.pc = "start"
    /\ format_call.formatter = "_format_rag_query_results"
    /\ formatted' = [pc |-> "done",
                     message |-> FormatRagQueryResults(format_call.query,
                                                       RowsOf(format_call),
                                                       format_call.has_tables)]
    /\ UNCHANGED format_call
    /\ UNCHANGED notFormatVars

\* A call of _format_availability_results with a list of rows
CallFormatAvailabilityResults ==
    /\ formatted.pc = "start"
    /\ format_call.formatter = "_format_availability_results"
    /\ formatted' = [pc |-> "done",
                     message |-> FormatAvailabilityResults(format_call.query,
                                                           RowsOf(format_call),
                                                           "sql")]
    /\ UNCHANGED format_call
    /\ UNCHANGED notFormatVars

NextFormat ==
    \/ CallFormatRagQueryResults
    \/ CallFormatAvailabilityResults

FormatAtRest ==
    /\ format_call = [formatter |-> "_format_rag_query_results",
                      query |-> <<"h", "e", "l", "l", "o">>,
                      day |-> weekday_mapping[1][1],
                      generator |-> "AvailabilityQueryGenerator",
                      rows |-> 0,
                      has_tables |-> FALSE]
    /\ formatted = [pc |-> "done", message |-> NotFormatted]

-----------------------------------------------------------------------------
\* ChainOfThoughtsWebSocket (websocket_chain_of_thoughts.py).  SocketIO runs
\* with async_mode 'threading': the event handlers and the callers of
\* emit_thought are threads of one process.

\* Bounds of the exploration
MaxEmits == 3
MaxClock == 1
MaxCleanups == 1

SessionIds == {"cot_1", "cot_2"}
EmitterThreads == {"t1", "t2"}

\* The callers of emit_thought: HealthcareResponseGenerator.emit_thought
\* passes the formatted text (a str) inside a try, _handle_availability_check
\* passes the str entries of result.chain_of_thoughts with no try of its
\* own, emit_thought_step passes a dict
Callers ==
    {"HealthcareResponseGenerator.emit_thought", "_handle_availability_check",
     "emit_thought_step"}

EmitterIdle == [pc |-> "idle", session_id |-> "cot_1", id |-> 0]

\* Bookkeeping: the session ids generated, the calls of emit_thought, the
\* thoughts stored for a session since its last clear or cleanup, whether a
\* call of emit_thought raised to the request, and the calls of
\* cleanup_old_sessions with the argument and the exception of the last
WsHistoryIdle ==
    [generated |-> {},
     emits |-> 0,
     stored |-> [s \in SessionIds |-> 0],
     escaped |-> FALSE,
     cleanups |-> 0,
     max_age_hours |-> 0,
     raised |-> ""]

\* ChainOfThoughtsWebSocket() without an app
InitWs ==
    /\ socketio = FALSE
    /\ ws_clock = 0
    /\ active_sessions = [s \in {} |-> 0]
    /\ thought_queues = [s \in {} |-> <<>>]
    /\ emitters = [t \in EmitterThreads |-> EmitterIdle]
    /\ ws_history = WsHistoryIdle

\* d[key] = value
SetItem(d, key, value) ==
    [k \in DOMAIN d \cup {key} |-> IF k = key THEN value ELSE d[k]]

\* init_app
InitApp ==
    /\ ~socketio
    /\ socketio' = TRUE
    /\ UNCHANGED ws_history
    /\ UNCHANGED <<ws_clock, active_sessions, thought_queues, emitters>>
    /\ UNCHANGED notWsVars

\* _generate_session_id: a uuid, never one generated before
GenerateSessionId == SessionIds \ ws_history.generated

\* handle_connect: the session records connected_at
HandleConnect ==
    /\ socketio
    /\ \E session_id \in GenerateSessionId :
          /\ active_sessions' = SetItem(active_sessions, session_id,
                                        [stamp |-> "connected_at", at |-> ws_clock])
          /\ thought_queues' = SetItem(thought_queues, session_id, <<>>)
          /\ ws_history' = [ws_history EXCEPT !.generated = @ \cup {session_id}]
    /\ UNCHANGED <<socketio, ws_clock, emitters>>
    /\ UNCHANGED notWsVars

\* create_session: the session records created_at
CreateSession ==
    /\ \E session_id \in GenerateSessionId :
          /\ active_sessions' = SetItem(active_sessions, session_id,
                                        [stamp |-> "created_at", at |-> ws_clock])
          /\ thought_queues' = SetItem(thought_queues, session_id, <<>>)
          /\ ws_history' = [ws_history EXCEPT !.generated = @ \cup {session_id}]
    /\ UNCHANGED <<socketio, ws_clock, emitters>>
    /\ UNCHANGED notWsVars

\* handle_clear_thoughts
HandleClearThoughts ==
    /\ socketio
    /\ \E session_id \in DOMAIN thought_queues :
          /\ thought_queues' = [thought_queues EXCEPT ![session_id] = <<>>]
          /\ ws_history' = [ws_history EXCEPT !.stored[session_id] = 0]
    /\ UNCHANGED <<socketio, ws_clock, active_sessions, emitters>>
    /\ UNCHANGED notWsVars

\* emit_thought for a session id handed out earlier, lines 124-133:
\* return when there is no socketio; build
\* thought_with_meta, whose id is the length of the queue read now.  The
\* ** of a str raises TypeError, which the try of
\* HealthcareResponseGenerator.emit_thought catches and which
\* _handle_availability_check lets through to its handler.
EmitThoughtMeta(t) ==
    /\ emitters[t].pc = "idle"
    /\ ws_history.emits < MaxEmits
    /\ \E session_id \in ws_history.generated, caller \in Callers :
          LET outcome == IF ~socketio THEN "not initialized"
                         ELSE IF caller = "HealthcareResponseGenerator.emit_thought"
                           THEN "TypeError caught"
                         ELSE IF caller = "_handle_availability_check"
                           THEN "TypeError"
                         ELSE "meta"
              queue == IF session_id \in DOMAIN thought_queues
                         THEN thought_queues[session_id] ELSE <<>>
          IN  /\ emitters' = [emitters EXCEPT ![t] =
                    IF outcome = "meta"
                      THEN [pc |-> "store", session_id |-> session_id,
                            id |-> Len(queue)]
                      ELSE EmitterIdle]
              /\ ws_history' = [ws_history EXCEPT
                    !.emits = @ + 1,
                    !.escaped = @ \/ outcome = "TypeError"]
    /\ UNCHANGED <<socketio, ws_clock, active_sessions, thought_queues>>
    /\ UNCHANGED notWsVars

\* emit_thought, lines 135-138: create the queue if there is none, append
EmitThoughtStore(t) ==
    /\ emitters[t].pc = "store"
    /\ LET session_id == emitters[t].session_id
           queue == IF session_id \in DOMAIN thought_queues
                      THEN thought_queues[session_id] ELSE <<>>
           thought_with_meta == [id |-> emitters[t].id, step |-> "step"]
       IN  /\ thought_queues' = SetItem(thought_queues, session_id,
                                        Append(queue, thought_with_meta))
           /\ ws_history' = [ws_history EXCEPT !.stored[session_id] = @ + 1]
    /\ emitters' = [emitters EXCEPT ![t].pc = "send"]
    /\ UNCHANGED <<socketio, ws_clock, active_sessions>>
    /\ UNCHANGED notWsVars

\* emit_thought, lines 140-146: socketio.emit to the room, subscribed or not
EmitThoughtSend(t) ==
    /\ emitters[t].pc = "send"
    /\ emitters' = [emitters EXCEPT ![t] = EmitterIdle]
    /\ UNCHANGED <<socketio, ws_clock, active_sessions, thought_queues, ws_history>>
    /\ UNCHANGED notWsVars

\* cleanup_old_sessions: the first loop reads created_at of every session
\* and raises KeyError for one that has none; the second removes
CleanupOldSessions ==
    \E max_age_hours \in 0..1 :
       LET raises == \E s \in DOMAIN active_sessions :
                        active_sessions[s].stamp # "created_at"
           sessions_to_remove ==
               {s \in DOMAIN active_sessions :
                   ws_clock - active_sessions[s].at > max_age_hours}
       IN  /\ active_sessions' =
                 IF raises THEN active_sessions
                 ELSE [s \in DOMAIN active_sessions \ sessions_to_remove |->
                          active_sessions[s]]
           /\ thought_queues' =
                 IF raises THEN thought_queues
                 ELSE [s \in DOMAIN thought_queues \ sessions_to_remove |->
                          thought_queues[s]]
           /\ ws_history.cleanups < MaxCleanups
           /\ ws_history' = [ws_history EXCEPT
                 !.cleanups = @ + 1,
                 !.max_age_hours = max_age_hours,
                 !.raised = IF raises THEN "KeyError" ELSE "",
                 !.stored = [s \in SessionIds |->
                               IF ~raises /\ s \in sessions_to_remove THEN 0 ELSE @[s]]]
           /\ UNCHANGED <<socketio, ws_clock, emitters>>
           /\ UNCHANGED notWsVars

\* An hour passes
WsTick ==
    /\ ws_clock < MaxClock
    /\ ws_clock' = ws_clock + 1
    /\ UNCHANGED <<socketio, active_sessions, thought_queues, emitters, ws_history>>
    /\ UNCHANGED notWsVars

NextWs ==
    \/ InitApp
    \/ HandleConnect
    \/ CreateSession
    \/ HandleClearThoughts
    \/ \E t \in EmitterThreads : EmitThoughtMeta(t)
    \/ \E t \in EmitterThreads : EmitThoughtStore(t)
    \/ \E t \in EmitterThreads : EmitThoughtSend(t)
    \/ CleanupOldSessions
    \/ WsTick

WsAtRest ==
    /\ socketio = FALSE
    /\ ws_clock = 0
    /\ active_sessions = [s \in {} |-> 0]
    /\ thought_queues = [s \in {} |-> <<>>]
    /\ emitters = [t \in EmitterThreads |-> EmitterIdle]
    /\ ws_history = WsHistoryIdle

-----------------------------------------------------------------------------
\* ConversationManager (nlp_processor.py) with the tools of
\* HealthcareToolsRegistry and ParameterValidator (ai_chatbot_tools.py)

\* Bound on the calls of process_user_input
MaxCalls == 4

ConvSessions == {"session_1", "session_2"}

\* The intents detect_intent returns for the inputs explored
ConvIntents == {"check_availability", "find_therapist", "view_appointments", "unknown"}

\* An entity extract_entities did not find
NoEntity == [type |-> "none", text |-> ""]

\* The inputs explored, as detect_intent and extract_entities read them: a
\* date is a str, normalised to YYYY-MM-DD or left as written; zip_code and
\* patient_id are the list of matches of findall
ConvInputs ==
    [intent : ConvIntents,
     entities : [date : {NoEntity, [type |-> "str", text |-> "2025-09-15"],
                         [type |-> "str", text |-> "this week"]},
                 zip_code : {NoEntity, [type |-> "list", text |-> "12345"]},
                 patient_id : {NoEntity, [type |-> "list", text |-> "123"]}]]

\* ToolSelector.select_tool: the first tool of intent_to_tool_mapping
SelectTool(intent) ==
    CASE intent = "check_availability" -> "check_availability"
      [] intent = "find_therapist" -> "find_employees_by_criteria"
      [] intent = "view_appointments" -> "get_patient_appointments"
      [] OTHER -> "None"

\* HealthcareToolsRegistry.get_tool(name).parameters
ToolParameters(name) ==
    CASE name = "check_availability" ->
           << [name |-> "employee_id", parameter_type |-> "INTEGER", required |-> FALSE],
              [name |-> "start_date", parameter_type |-> "DATE", required |-> TRUE],
              [name |-> "end_date", parameter_type |-> "DATE", required |-> FALSE],
              [name |-> "time_from", parameter_type |-> "TIME", required |-> FALSE],
              [name |-> "time_to", parameter_type |-> "TIME", required |-> FALSE],
              [name |-> "duration_minutes", parameter_type |-> "INTEGER", required |-> FALSE] >>
      [] name = "find_employees_by_criteria" ->
           << [name |-> "zone_id", parameter_type |-> "INTEGER", required |-> FALSE],
              [name |-> "gender", parameter_type |-> "ENUM", required |-> FALSE],
              [name |-> "min_degree_level", parameter_type |-> "STRING", required |-> FALSE],
              [name |-> "zip_code", parameter_type |-> "STRING", required |-> FALSE],
              [name |-> "language_id", parameter_type |-> "INTEGER", required |-> FALSE],
              [name |-> "specialization", parameter_type |-> "STRING", required |-> FALSE],
              [name |-> "treatment_type_id", parameter_type |-> "INTEGER", required |-> FALSE],
              [name |-> "max_distance", parameter_type |-> "INTEGER", required |-> FALSE] >>
      [] name = "get_patient_appointments" ->
           << [name |-> "patient_id", parameter_type |-> "INTEGER", required |-> TRUE],
              [name |-> "include_past", parameter_type |-> "BOOLEAN", required |-> FALSE],
              [name |-> "limit", parameter_type |-> "INTEGER", required |-> FALSE] >>
      [] OTHER -> <<>>

ParameterNames(name) == {ToolParameters(name)[i].name : i \in 1..Len(ToolParameters(name))}

\* ParameterValidator.validate_parameter for a collected value: int() of a
\* list raises TypeError, strptime of a str that is no date raises
\* ValueError
ValidateParameter(value, param_def) ==
    CASE param_def.parameter_type = "INTEGER" ->
           value.type = "str" /\ value.text \in {"5", "123", "12345"}
      [] param_def.parameter_type = "DATE" ->
           value.type # "str" \/ value.text = "2025-09-15"
      [] param_def.parameter_type = "TIME" ->
           value.type # "str" \/ value.text = "14:00"
      [] OTHER -> TRUE

\* ParameterValidator.validate_parameters: a parameter with no value is
\* invalid when it is required
ValidateParameters(parameters, name) ==
    \A i \in 1..Len(ToolParameters(name)) :
       LET param_def == ToolParameters(name)[i]
       IN  IF param_def.name \in DOMAIN parameters
             THEN ValidateParameter(parameters[param_def.name], param_def)
             ELSE ~param_def.required

\* _map_entities_to_parameters: each entity found goes to the first
\* parameter of its list that the tool defines
MapEntitiesToParameters(entities, name) ==
    LET entity_to_param_mapping ==
            [date |-> <<"appointment_date", "start_date", "availability_date">>,
             zip_code |-> <<"zip_code">>,
             patient_id |-> <<"patient_id">>]
        found == {e \in DOMAIN entities : entities[e] # NoEntity}
        Defined(param_name) == param_name \in ParameterNames(name)
        Target(e) == LET possible == SelectSeq(entity_to_param_mapping[e], Defined)
                     IN  IF possible = <<>> THEN "None" ELSE possible[1]
        mapped_names == {Target(e) : e \in found} \ {"None"}
    IN  [param_name \in mapped_names |->
            entities[CHOOSE e \in found : Target(e) = param_name]]

\* dict.update
Update(d, other) ==
    [k \in DOMAIN d \cup DOMAIN other |-> IF k \in DOMAIN other THEN other[k] ELSE d[k]]

\* _get_missing_parameters
GetMissingParameters(collected_params, name) ==
    LET Missing(param_def) ==
            param_def.required /\ param_def.name \notin DOMAIN collected_params
        missing == SelectSeq(ToolParameters(name), Missing)
    IN  [i \in 1..Len(missing) |-> missing[i].name]

NoParameters == [k \in {} |-> NoEntity]

ConvResponse(status, tool, parameters) ==
    [status |-> status, tool |-> tool, parameters |-> parameters]

\* ConversationContext(session_id)
NewContext(session_id) ==
    [session_id |-> session_id,
     current_intent |-> "None",
     selected_tool |-> "None",
     collected_parameters |-> NoParameters,
     missing_parameters |-> <<>>,
     retry_count |-> 0,
     conversation_history |-> <<>>]

\* A reset that only zeroes the counter
ResetContextCounterOnly(context) ==
    [context EXCEPT !.retry_count = 0]

\* _reset_context
ResetContext(context) ==
    [context EXCEPT !.current_intent = "None",
                    !.selected_tool = "None",
                    !.collected_parameters = NoParameters,
                    !.missing_parameters = <<>>,
                    !.retry_count = 0]

\* _validate_and_execute_tool
ValidateAndExecuteTool(context) ==
    IF ~ValidateParameters(context.collected_parameters, context.selected_tool)
      THEN LET counted == [context EXCEPT !.retry_count = @ + 1]
           IN  IF counted.retry_count >= 3
                 THEN [context |-> ResetContext(counted),
                       response |-> ConvResponse("error", "None", NoParameters)]
                 ELSE [context |-> counted,
                       response |-> ConvResponse("validation_error", "None", NoParameters)]
      ELSE [context |-> context,
            response |-> ConvResponse("ready_for_execution", context.selected_tool,
                                      context.collected_parameters)]

\* The end of _process_conversation_step and of
\* _collect_missing_parameters: update the collected parameters, recompute
\* the missing ones, ask for them or validate
GatherParameters(context, entities) ==
    LET mapped_parameters == MapEntitiesToParameters(entities, context.selected_tool)
        collected == Update(context.collected_parameters, mapped_parameters)
        missing_params == GetMissingParameters(collected, context.selected_tool)
        gathered == [context EXCEPT !.collected_parameters = collected,
                                    !.missing_parameters = missing_params]
    IN  IF missing_params # <<>>
          THEN [context |-> gathered,
                response |-> ConvResponse("collecting_parameters",
                                          context.selected_tool, collected)]
          ELSE ValidateAndExecuteTool(gathered)

\* _collect_missing_parameters
CollectMissingParameters(context, user_input) ==
    GatherParameters(context, user_input.entities)

\* _process_conversation_step
ProcessConversationStep(context, user_input) ==
    IF context.selected_tool # "None" /\ context.missing_parameters # <<>>
      THEN CollectMissingParameters(context, user_input)
      ELSE LET selected_tool == SelectTool(user_input.intent)
               understood == [context EXCEPT !.current_intent = user_input.intent]
           IN  IF selected_tool = "None"
                 THEN [context |-> understood,
                       response |-> ConvResponse("error", "None", NoParameters)]
                 ELSE GatherParameters([understood EXCEPT !.selected_tool = selected_tool],
                                       user_input.entities)

ConvLogIdle ==
    [calls |-> 0,
     under |-> [s \in ConvSessions |-> [k \in {} |-> "None"]]]

InitConv ==
    /\ active_contexts = [s \in {} |-> NewContext(s)]
    /\ conv_call = [session_id |-> "session_1",
                    response |-> ConvResponse("", "None", NoParameters)]
    /\ conv_log = ConvLogIdle

\* process_user_input
ProcessUserInput ==
    /\ conv_log.calls < MaxCalls
    /\ \E session_id \in ConvSessions, user_input \in ConvInputs :
          LET context == IF session_id \in DOMAIN active_contexts
                           THEN active_contexts[session_id]
                           ELSE NewContext(session_id)
              heard == [context EXCEPT !.conversation_history = Append(@, "user")]
              step == ProcessConversationStep(heard, user_input)
              answered == [step.context EXCEPT
                              !.conversation_history = Append(@, "assistant")]
              tool_now == IF heard.selected_tool # "None" /\ heard.missing_parameters # <<>>
                            THEN heard.selected_tool
                            ELSE SelectTool(user_input.intent)
              mapped == IF tool_now = "None" THEN NoParameters
                        ELSE MapEntitiesToParameters(user_input.entities, tool_now)
              under == conv_log.under[session_id]
          IN  /\ active_contexts' =
                    [s \in DOMAIN active_contexts \cup {session_id} |->
                        IF s = session_id THEN answered ELSE active_contexts[s]]
              /\ conv_call' = [session_id |-> session_id, response |-> step.response]
              /\ conv_log' = [conv_log EXCEPT
                    !.calls = @ + 1,
                    !.under[session_id] =
                        [k \in DOMAIN answered.collected_parameters |->
                            IF k \in DOMAIN mapped THEN tool_now ELSE under[k]]]
    /\ UNCHANGED notConvVars

NextConv ==
    \/ ProcessUserInput

ConvAtRest ==
    /\ active_contexts = [s \in {} |-> NewContext(s)]
    /\ conv_call = [session_id |-> "session_1",
                    response |-> ConvResponse("", "None", NoParameters)]
    /\ conv_log = ConvLogIdle

-----------------------------------------------------------------------------
\* The retry subsystem at rest
RetryAtRest ==
    /\ op = "execute_query"
    /\ max_retries = DefaultMaxRetries
    /\ delay = DefaultDelay
    /\ backoff = DefaultBackoff
    /\ script = [i \in 1..MaxRetriesBound |-> "ok"]
    /\ retries = 0
    /\ current_delay = DefaultDelay
    /\ calls = 0
    /\ sleeps = <<>>
    /\ result = "rows"

\* The schema manager at rest: no schema file
SchemaAtRest ==
    /\ file = [kind |-> "missing", ddl |-> <<>>]
    /\ clock = 0
    /\ client_ok = FALSE
    /\ embedding_ok = FALSE
    /\ current_schema = <<>>
    /\ schema_hash = NoHash
    /\ collection = NoCollection
    /\ writer = WriterIdle
    /\ reader = ReaderIdle
    /\ history = [published |-> {<<>>},
                  snapshot_source |-> [kind |-> "missing", ddl |-> <<>>],
                  ops |-> 0, edits |-> 0, reads |-> 0]

SpecRetryInit == InitRetry /\ SchemaAtRest /\ GenAtRest /\ TurnAtRest /\ FormatAtRest /\ WsAtRest /\ ConvAtRest

SpecRetry == SpecRetryInit /\ [][NextRetry]_vars

SpecSchemaInit == InitSchema /\ RetryAtRest /\ GenAtRest /\ TurnAtRest /\ FormatAtRest /\ WsAtRest /\ ConvAtRest

SpecSchema == SpecSchemaInit /\ [][NextSchema]_vars

SpecGenInit == InitGen /\ RetryAtRest /\ SchemaAtRest /\ TurnAtRest /\ FormatAtRest /\ WsAtRest /\ ConvAtRest

SpecGen == SpecGenInit /\ [][NextGen]_vars

SpecTurnInit == InitTurn /\ RetryAtRest /\ SchemaAtRest /\ GenAtRest /\ FormatAtRest /\ WsAtRest /\ ConvAtRest

SpecTurn == SpecTurnInit /\ [][NextTurn]_vars

SpecFormatInit == InitFormat /\ RetryAtRest /\ SchemaAtRest /\ GenAtRest /\ TurnAtRest /\ WsAtRest /\ ConvAtRest

SpecFormat == SpecFormatInit /\ [][NextFormat]_vars

SpecWsInit == InitWs /\ RetryAtRest /\ SchemaAtRest /\ GenAtRest /\ TurnAtRest /\ FormatAtRest /\ ConvAtRest

SpecWs == SpecWsInit /\ [][NextWs]_vars

SpecConvInit == InitConv /\ RetryAtRest /\ SchemaAtRest /\ GenAtRest /\ TurnAtRest /\ FormatAtRest /\ WsAtRest

SpecConv == SpecConvInit /\ [][NextConv]_vars

-----------------------------------------------------------------------------
\* Properties of the dynamic schema manager

\* The tables of a result all come from snapshot s, by name and column names
FromSnapshot(tables, s) ==
    \A k \in 1..Len(tables) :
        /\ tables[k].table_name \in TableNames(s)
        /\ ColumnNames(Lookup(s, tables[k].table_name))
              = ColumnNames(tables[k])

\* C2 (as claimed): a get_schema_for_query() that runs while
\* check_for_schema_changes() publishes a new snapshot returns tables that all
\* come from one snapshot, never a mix of old and new tables.
C2_RetrieveOneSnapshot ==
    (reader.pc = "done" /\ reader.ret.status = "returned")
      => \E s \in history.published : FromSnapshot(reader.ret.tables, s)

\* No keyword of keywords_map occurs in the lowercased query
NoKeywordMatch(user_query) ==
    \A e \in keywords_map : ~Contains(e[1], Lower(user_query))

\* C4: without an embedding backend get_schema_for_query() never returns a
\* result tagged vector_search; without embedding backend and without a
\* keyword match it returns a full snapshot tagged complete_schema.
C4_NoBackendNeverVector ==
    (reader.pc = "done" /\ ~embedding_ok) =>
        /\ reader.ret.status = "returned"
        /\ reader.ret.search_method # "vector_search"
        /\ NoKeywordMatch(reader.user_query) =>
              /\ reader.ret.search_method = "complete_schema"
              /\ reader.ret.tables \in history.published

\* C4 witness: a query without keywords was answered with a non-empty full
\* schema while no embedding model was loaded.
C4_Witness ==
    /\ reader.pc = "done" /\ ~embedding_ok /\ client_ok
    /\ NoKeywordMatch(reader.user_query)
    /\ reader.ret.search_method = "complete_schema"
    /\ reader.ret.tables # <<>>

\* A parse of this source yields no table: the file is missing, unreadable or
\* holds nothing the parser recognises
LoadFails(src) == parse_schema_file(src, 0) = <<>>

\* C6 (as claimed): when the schema source is the one the active snapshot was
\* loaded from, check_for_schema_changes() returns an empty change set and
\* leaves the snapshot and the index as they were.
C6_UnchangedSourceNoChange ==
    (writer.pc = "idle" /\ writer.op = "check"
        /\ writer.parsed = <<writer.before_source>>)
      => /\ writer.update_info = EmptyUpdateInfo
         /\ current_schema = writer.before

\* The collection holds exactly one point per table of the active snapshot,
\* carrying that table's name and columns
IndexMatchesSnapshot ==
    /\ Len(collection.points) = Len(current_schema)
    /\ FromSnapshot([i \in 1..Len(collection.points) |->
                        collection.points[i].table], current_schema)
    /\ \A i, j \in 1..Len(collection.points) :
        i # j => collection.points[i].table.table_name
                    # collection.points[j].table.table_name

\* C7 (as claimed): after any sequence of loads, checks and forced refreshes
\* the index holds exactly one entry per table of the active snapshot.
C7_IndexMatchesSnapshot ==
    (writer.pc = "idle" /\ BackendAvailable) => IndexMatchesSnapshot

\* C8 (as claimed): when every re-load of the source fails while a snapshot
\* is active, that snapshot is still the active one after
\* check_for_schema_changes() or force_schema_update().
C8_FailedReloadKeepsSnapshot ==
    (writer.pc = "idle" /\ writer.op \in {"check", "force"}
        /\ writer.before # <<>>
        /\ \A i \in 1..Len(writer.parsed) : LoadFails(writer.parsed[i]))
      => current_schema = writer.before

-----------------------------------------------------------------------------
\* Properties of the SQL generators

\* The column names a generated SELECT refers to
ReferencedColumns(sql) == (Range(sql.select) \cup Range(sql.where)) \ {Star}

\* Every name of `sql` is a name of the tables given
Grounded(sql, tables) ==
    sql.form = "select" =>
        \E k \in 1..Len(tables) :
            /\ tables[k].table_name = sql.from
            /\ ReferencedColumns(sql) \subseteq Range(Names(tables[k].columns))

\* C3 (as claimed): the SQL a generator builds by its rules from the tables
\* it was given refers only to table names and column names of those tables.
C3_RuleBasedSqlGrounded ==
    (generation.pc = "done" /\ generation.ret.produced_by = "rule_based"
        /\ request.generator \in {"DynamicSchemaManager", "EnhancedSchemaRAG"})
      => Grounded(generation.ret.sql, request.tables)

\* What the chat model's reply is after the generator's fence stripping
Cleaned(generator, text) ==
    IF generator = "AvailabilityQueryGenerator"
      THEN CleanAvailabilitySql(text)
      ELSE CleanSql(text)

\* The SQL the rules of the request's generator build
RuleBasedSql(r) ==
    CASE r.generator = "DynamicSchemaManager" ->
            GenerateBasicSql(r.user_query, r.tables)
      [] r.generator = "EnhancedSchemaRAG" ->
            GenerateSqlFallback(r.user_query, r.tables)
      [] OTHER -> GenerateRuleBased(r.user_query, r.gender)

\* C5 (as claimed): when the chat model is unavailable, its invocation
\* raises, or its reply is empty after fence stripping, the generator returns
\* the SQL built by its rules.
C5_FallbackWhenLlmUnusable ==
    (generation.pc = "done"
        /\ (~chat_available \/ llm.raises
               \/ Cleaned(request.generator, llm.text) = <<>>))
      => /\ generation.ret.status = "returned"
         /\ generation.ret.produced_by = "rule_based"
         /\ generation.ret.sql = RuleBasedSql(request)

\* C18 (as claimed): get_schema_for_query() never raises; whatever the query,
\* the snapshot and the backend, it ends by returning a result.
C18_RetrieveNeverRaises ==
    reader.pc = "done" => reader.ret.status = "returned"

\* The columns of table t that snapshot b has and snapshot a has not
ColumnsGained(a, b, t) ==
    ColumnNames(Lookup(b, t)) \ ColumnNames(Lookup(a, t))

\* The tables of both snapshots a and b of which b has columns a has not
TablesGaining(a, b) ==
    {t \in TableNames(a) \cap TableNames(b) : ColumnsGained(a, b, t) # {}}

\* C16 (as claimed): the change set check_for_schema_changes() returns for
\* old snapshot `before` and the new current snapshot reports as tables
\* exactly those added (new minus old) and removed (old minus new), and for
\* each table of both snapshots the set differences of the column names.
C16_ChangeSetIsSetDifference ==
    (writer.pc = "idle" /\ writer.op = "check" /\ writer.changed) =>
        LET old == writer.before
            new == current_schema
            info == writer.update_info
        IN  /\ info.tables_updated
                  = (TableNames(new) \ TableNames(old))
                        \cup (TableNames(old) \ TableNames(new))
            /\ DOMAIN info.columns_added = TablesGaining(old, new)
            /\ \A t \in DOMAIN info.columns_added :
                  info.columns_added[t] = ColumnsGained(old, new, t)
            /\ DOMAIN info.columns_removed = TablesGaining(new, old)
            /\ \A t \in DOMAIN info.columns_removed :
                  info.columns_removed[t] = ColumnsGained(new, old, t)

\* C17 (as claimed): a result whose tables keyword matching chose is tagged
\* keyword_fallback with confidence 0.6, never vector_search.
C17_KeywordResultTagged ==
    (reader.pc = "done" /\ reader.ret.status = "returned"
        /\ reader.ret.chosen_by = "keywords")
      => /\ reader.ret.search_method = "keyword_fallback"
         /\ reader.ret.confidence_score = "0.6"

\* C19 (as claimed): a generator whose rules are given no table at all
\* returns no SQL; it raises NoQueryGeneratedError to its caller.
C19_NoTablesRaises ==
    (generation.pc = "done" /\ generation.ret.produced_by = "rule_based"
        /\ request.generator \in {"DynamicSchemaManager", "EnhancedSchemaRAG"}
        /\ request.tables = <<>>)
      => /\ generation.ret.status = "raised"
         /\ generation.ret.sql = NoSql

\* A reply that wraps `inner` in a code fence opened by `opener`
FencedBy(opener, inner) ==
    opener \o <<"\n">> \o inner \o <<"\n">> \o Fence

\* C20 (as claimed): from a reply that wraps SELECT 1 in a fence opened by
\* the sql fence or by a bare fence, the LLM path of every generator returns
\* exactly SELECT 1.
C20_FenceStripped ==
    (generation.pc = "done" /\ generation.ret.produced_by = "llm"
        /\ \E opener \in {FenceSql, Fence} :
              llm.text = FencedBy(opener, Select1))
      => generation.ret.sql = SqlText(Select1)

-----------------------------------------------------------------------------
\* Claims about the chatbot turn

\* Some exception was caught during the turn
FailurePath == audit.caught # <<>>

\* C11 (as claimed): on every failure path generate_response returns a
\* response whose message is not empty and whose suggestions hold at least
\* one entry.
C11_FailureResponseWellFormed ==
    (user_turn.entry = "generate_response" /\ turn.pc = "done" /\ FailurePath)
      => /\ turn.response.kind = "ChatResponse"
         /\ turn.response.message # <<>>
         /\ turn.response.suggestions # <<>>

\* The database rejected the SQL of the turn
DatabaseFailed ==
    \E i \in 1..Len(audit.caught) : audit.caught[i].boundary = "database"

\* C12 (as claimed): after a database execution failure the message shown
\* to the user never contains the raw text of the database error.
C12_NoRawDatabaseError ==
    (turn.pc = "done" /\ DatabaseFailed
        /\ turn.response.kind \in {"ChatResponse", "result.html"})
      => ExceptionText("database") \notin Range(turn.response.message)

\* The trace holds an error step that quotes the error
ErrorStepFor(error, trace) ==
    \E i \in 1..Len(trace) :
        "error" \in trace[i].carries /\ trace[i].error = error

\* C13 (as claimed): every error caught at an embedding, chat model or
\* database boundary of a turn has an error step in the chain of thoughts
\* the turn returns.
C13_CaughtErrorsInTrace ==
    (turn.pc = "done" /\ user_turn.entry # "query")
      => \A i \in 1..Len(audit.caught) :
            audit.caught[i].boundary \in {"embedding", "llm", "database"}
              => ErrorStepFor(audit.caught[i].error, turn.response.chain_of_thoughts)

\* C14 (as claimed): the chain of thoughts of a turn is exactly the steps
\* appended so far, in the order of the appends.
C14_TraceIsTheAppends ==
    /\ turn.chain_of_thoughts = audit.appended
    /\ (turn.pc = "done" /\ user_turn.entry # "query")
          => turn.response.chain_of_thoughts = audit.appended

\* What the steps of a trace carry between them
CarriedBy(trace) == UNION {trace[i].carries : i \in 1..Len(trace)}

\* C15 (as claimed): the chain of thoughts returned by a completed
\* generate_response turn that sent SQL to the database carries the intent,
\* the entities, the schema tables with confidence and search method, the
\* SQL, the outcome of the execution and the elapsed time.
C15_TraceCoversTheTurn ==
    (user_turn.entry = "generate_response" /\ turn.pc = "done" /\ audit.executed)
      => LET carried == CarriedBy(turn.response.chain_of_thoughts)
         IN  /\ {"intent", "entities", "tables", "schema_confidence",
                 "search_method", "sql", "elapsed"} \subseteq carried
             /\ carried \cap {"row_count", "error"} # {}

\* An execution of the /query route failed
ExecutionFailed(k) == route.executions[k].outcome # "rows"

\* C21 (as claimed): a /query request makes at most three generate-then-
\* execute attempts; each attempt after a failed execution is prompted with
\* the failed SQL and the database error and writes the SQL anew; the
\* request stops at the first successful execution, and returns a failure
\* only after the third failed execution.
C21_ThreeFeedbackAttempts ==
    (user_turn.entry = "query" /\ turn.pc = "done" /\ dependencies.llm = "ok")
      => LET n == Len(route.executions)
         IN  /\ n <= QueryAttempts
             /\ \A k \in 1..(n - 1) : ExecutionFailed(k)
             /\ \A k \in 2..n :
                   /\ route.prompts[k] = [failed_sql |-> route.executions[k - 1].sql,
                                          error |-> ExceptionText("database")]
                   /\ route.executions[k].sql # route.executions[k - 1].sql
             /\ ExecutionFailed(n) => n = QueryAttempts
             /\ turn.response.status = IF ExecutionFailed(n) THEN "error" ELSE "success"

-----------------------------------------------------------------------------
\* Claims about result formatting

\* A message that says nothing was found: it has a text, renders no entry
\* and states neither further results nor a positive total
SaysNoResults(m) ==
    /\ m.opening # ""
    /\ m.entries = <<>>
    /\ m.more = 0
    /\ m.total <= 0

\* C22 (as claimed): for every query category, formatting an empty list of
\* rows returns a non-empty message that says no results were found, never
\* a message that claims results.
C22_EmptyRowsSayNoResults ==
    (formatted.pc = "done" /\ format_call.rows = 0)
      => SaysNoResults(formatted.message)

\* C23 (as claimed): when there are more rows than the formatter renders,
\* the message renders at most the cap and states the number of rows left
\* out, whatever the category.
C23_OmittedRowsCounted ==
    (formatted.pc = "done" /\ format_call.rows > RowCap)
      => LET m == formatted.message
         IN  /\ Len(m.entries) <= RowCap
             /\ m.more = format_call.rows - Len(m.entries)

\* C24 (as claimed): the WeekDay code the SQL generation filters on for a
\* weekday is rendered as that weekday by the availability formatter.
C24_WeekdayRoundTrip ==
    formatted.pc = "done"
      => \A i \in 1..Len(formatted.message.entries) :
            LET entry == formatted.message.entries[i]
            IN  entry.form = "schedule" => Lower(entry.day_name) = format_call.day

-----------------------------------------------------------------------------
\* Claims about the live chain of thoughts

\* The size a bounded queue of at most QueueBound steps may reach
QueueBound == 2

\* C25 (as claimed): emitting a step never fails the caller, with or without
\* an initialised transport or a subscriber, and the steps buffered for a
\* session never exceed a fixed bound however many are emitted.
C25_EmitNeverFailsBounded ==
    /\ ~ws_history.escaped
    /\ \A s \in DOMAIN thought_queues : Len(thought_queues[s]) <= QueueBound

\* C29 (as claimed): cleanup_old_sessions completes without error and
\* removes exactly the sessions older than max_age_hours with their queues,
\* leaving the others as they were, however the sessions were registered;
\* every session left has a queue.
C29_CleanupRemovesOld ==
    [][ws_history'.cleanups # ws_history.cleanups
         => LET old == {s \in DOMAIN active_sessions :
                           ws_clock - active_sessions[s].at > ws_history'.max_age_hours}
            IN  /\ ws_history'.raised = ""
                /\ DOMAIN active_sessions' = DOMAIN active_sessions \ old
                /\ \A s \in DOMAIN active_sessions' :
                      active_sessions'[s] = active_sessions[s]
                /\ DOMAIN thought_queues' = DOMAIN thought_queues \ old
                /\ \A s \in DOMAIN thought_queues' :
                      thought_queues'[s] = thought_queues[s]
                /\ DOMAIN active_sessions' \subseteq DOMAIN thought_queues']_vars

\* C30 (as claimed): in every queue the k-th thought, counting from 0, has
\* id thought_k, so the ids are pairwise distinct, and the queue holds every
\* thought stored since the last clear or cleanup of the session.
C30_IdsArePositions ==
    \A s \in DOMAIN thought_queues :
       /\ \A k \in 1..Len(thought_queues[s]) : thought_queues[s][k].id = k - 1
       /\ Len(thought_queues[s]) = ws_history.stored[s]

-----------------------------------------------------------------------------
\* Claims about the conversation manager

\* The context of the session of the call that has just returned, before
\* the call and after it
ContextBefore ==
    IF conv_call'.session_id \in DOMAIN active_contexts
      THEN active_contexts[conv_call'.session_id]
      ELSE NewContext(conv_call'.session_id)

ContextAfter == active_contexts'[conv_call'.session_id]

\* C26: after every call of process_user_input the retry_count of every
\* session is 0, 1 or 2; a call that starts with retry_count 2 never
\* answers with a third validation error, and when it ends with
\* retry_count 0 the context is reset: current_intent and selected_tool are
\* cleared, collected_parameters and missing_parameters are empty, and the
\* conversation history, extended by this call, and the session_id are kept.
C26_RetryCountBelowThree ==
    [][conv_log'.calls # conv_log.calls
         => /\ \A s \in DOMAIN active_contexts' : active_contexts'[s].retry_count \in 0..2
            /\ ContextBefore.retry_count = 2
                 => /\ conv_call'.response.status # "validation_error"
                    /\ ContextAfter.retry_count \in {0, 2}
                    /\ ContextAfter.retry_count = 0
                         => /\ ContextAfter.current_intent = "None"
                            /\ ContextAfter.selected_tool = "None"
                            /\ ContextAfter.collected_parameters = NoParameters
                            /\ ContextAfter.missing_parameters = <<>>
                            /\ ContextAfter.conversation_history =
                                  ContextBefore.conversation_history \o <<"user", "assistant">>
                            /\ ContextAfter.session_id = ContextBefore.session_id]_vars

\* A third validation failure has reset a context
C26_Witness ==
    \E s \in DOMAIN active_contexts :
       /\ conv_call.session_id = s
       /\ conv_call.response.status = "error"
       /\ active_contexts[s].current_intent = "None"
       /\ active_contexts[s].retry_count = 0
       /\ Len(active_contexts[s].conversation_history) >= 6

\* C27 (as claimed): a call for a session that has a selected tool and
\* missing parameters changes neither current_intent nor selected_tool; it
\* keeps the parameters collected, may add some, and sets
\* missing_parameters to the required parameters of the tool not collected.
C27_CollectingKeepsTool ==
    [][(/\ conv_log'.calls # conv_log.calls
        /\ ContextBefore.selected_tool # "None"
        /\ ContextBefore.missing_parameters # <<>>)
         => /\ ContextAfter.current_intent = ContextBefore.current_intent
            /\ ContextAfter.selected_tool = ContextBefore.selected_tool
            /\ \A k \in DOMAIN ContextBefore.collected_parameters :
                  /\ k \in DOMAIN ContextAfter.collected_parameters
                  /\ ContextAfter.collected_parameters[k] = ContextBefore.collected_parameters[k]
            /\ ContextAfter.missing_parameters =
                  GetMissingParameters(ContextAfter.collected_parameters,
                                       ContextBefore.selected_tool)]_vars

\* C28 (as claimed): the parameters returned with ready_for_execution are
\* parameters of the returned tool, each collected while that tool was
\* selected.
C28_ParametersOfTheTool ==
    conv_call.response.status = "ready_for_execution"
      => \A k \in DOMAIN conv_call.response.parameters :
            /\ k \in ParameterNames(conv_call.response.tool)
            /\ conv_log.under[conv_call.session_id][k] = conv_call.response.tool

=============================================================================
